---- MODULE Spec2Model ----
(***************************************************************************)
(* IDE Sync: the VSCode extension (WebSocket listener, extension.ts) and   *)
(* the JetBrains plugin (WebSocket dialer, VSCodeJetBrainsSyncService.kt). *)
(*                                                                         *)
(* Variables prefixed v_ are fields of VSCodeJetBrainsSync (TypeScript),   *)
(* variables prefixed j_ are fields of VSCodeJetBrainsSyncService (Kotlin).*)
(* conns holds the WebSocket transports: one record per WebSocketClient    *)
(* object of the dialer, with the listener's accepted socket as its other  *)
(* end.                                                                    *)
(*                                                                         *)
(* Scheduling.  The extension host is one JavaScript thread: a handler     *)
(* runs atomically up to its next await.  The plugin runs callbacks on the *)
(* WebSocket read thread, editor listeners and invokeLater blocks on the   *)
(* event dispatch thread (EDT), and connects and sleeps on pooled threads; *)
(* each callback is one step, and handleIncomingState is two steps (its    *)
(* body, then its finally block) because the EDT reads the flag it writes. *)
(*                                                                         *)
(* Editors.  Each peer's editor is a set of open files, the selected file  *)
(* and the caret in it.  A listener the editor fires because of an editor  *)
(* action runs in the step of that action.  A listener fires only when the *)
(* observed value changes.                                                 *)
(***************************************************************************)
EXTENDS Integers, Sequences, FiniteSets, TLC

\* ------------------------------------------------------------------ bounds
MaxConn == 3     \* WebSocketClient objects alive at the same time
MaxQueue == 3    \* frames in flight in one direction of one transport
MaxLine == 1     \* zero-based line indices 0..MaxLine
MaxCol == 1      \* zero-based column indices 0..MaxCol
MaxUser == 2     \* user editor / focus events in one run
MaxCtl == 4      \* user toggles and port changes in one run
MaxTasks == 2    \* handlers suspended at an await, blocks queued on the EDT
MaxSleep == 2    \* pooled retry tasks sleeping or due at the same time
MaxWait == 2     \* backoff intervals counted while the peers wait to connect

Files == {"a", "b"}
Ports == {1, 2}
DefaultPort == 1
ConnIds == 1 .. MaxConn
Lines == 0 .. MaxLine
Cols == 0 .. MaxCol
Positions == Lines \X Cols
Origin == <<0, 0>>
NoFile == "none"
Null == [null |-> TRUE]

\* ------------------------------------------------------------------- state
VARIABLES
    \* transports
    conns,
    \* VSCodeJetBrainsSync
    v_wss, v_jetbrainsClient, v_currentState, v_isActive, v_isConnected,
    v_autoReconnect, v_isHandlingExternalUpdate, v_statusIcon, v_port,
    v_pending,
    \* VSCode editor
    v_tabs, v_activeEditor, v_selection, v_closedDocs,
    \* VSCodeJetBrainsSyncService
    j_webSocket, j_isActive, j_isHandlingExternalUpdate, j_isConnected,
    j_isReconnecting, j_autoReconnect, j_port, j_edt, j_connectTasks, j_sleeping, j_due,
    \* JetBrains editor
    j_openFiles, j_selectedFile, j_caret, j_caretListeners,
    \* run bookkeeping
    userLeft, ctlLeft, last, waited

connVars == <<conns>>
vsConnVars == <<v_wss, v_jetbrainsClient, v_isConnected, v_autoReconnect, v_statusIcon, v_port>>
vsSyncVars == <<v_currentState, v_isActive, v_isHandlingExternalUpdate, v_pending>>
vsEditorVars == <<v_tabs, v_activeEditor, v_selection, v_closedDocs>>
jbConnVars == <<j_webSocket, j_isConnected, j_isReconnecting, j_autoReconnect, j_port,
                j_connectTasks, j_sleeping, j_due>>
jbSyncVars == <<j_isActive, j_isHandlingExternalUpdate, j_edt>>
jbEditorVars == <<j_openFiles, j_selectedFile, j_caret, j_caretListeners>>
bookVars == <<userLeft, ctlLeft, last>>
clockVars == <<waited>>
vars == <<connVars, vsConnVars, vsSyncVars, vsEditorVars, jbConnVars, jbSyncVars,
          jbEditorVars, bookVars, clockVars>>

\* ---------------------------------------------------------------- messages
\* interface SyncState / data class EditorState: the wire record.
SyncState(filePath, line, column, source, isActive, action) ==
    [filePath |-> filePath, line |-> line, column |-> column, source |-> source,
     isActive |-> isActive, action |-> action]

SelectMsg(f, pos, source, active) == SyncState(f, pos[1], pos[2], source, active, "select")
CloseMsg(f, source, active) == SyncState(f, 0, 0, source, active, "close")
Position(state) == <<state.line, state.column>>

Messages ==
    [filePath : Files, line : Lines, column : Cols, source : {"vscode", "jetbrains"},
     isActive : BOOLEAN, action : {"select", "close"}]

\* A frame on the wire is text.  The text of a whole record is written as the
\* record; Lacking(F, m) is the JSON object of m without the members named in F;
\* Garbage is text that is not JSON.
Members == {"filePath", "line", "column", "source", "isActive", "action"}
Garbage == [text |-> "not json"]
Lacking(F, m) == [lacks |-> F, of |-> m]
IsGarbage(frame) == "text" \in DOMAIN frame
IsLacking(frame) == "lacks" \in DOMAIN frame
Lacks(frame) == IF IsLacking(frame) THEN frame.lacks ELSE {}

\* What a decoder leaves in a member the text does not have: given(frame, member,
\* absent) is the member's value, or absent.
given(frame, member, absent) ==
    IF IsLacking(frame)
    THEN IF member \in frame.lacks THEN absent ELSE frame.of[member]
    ELSE frame[member]

\* JSON.parse(data.toString()): throws on text that is not JSON; a member the
\* object does not have reads as undefined.  undefined is written "undefined" in a
\* string member, NaN in a number member, and FALSE in isActive, which the code
\* reads only as !state.isActive.
Undefined == "undefined"
NaN == 0 - 1
JSON_parse_lenient(frame) ==
    LET read == IF IsGarbage(frame) THEN SyncState("a", 0, 0, "jetbrains", TRUE, "close")
                ELSE frame
    IN [threw |-> FALSE,
        state |-> SyncState(given(read, "filePath", Undefined), given(read, "line", NaN),
                            given(read, "column", NaN), given(read, "source", Undefined),
                            given(read, "isActive", FALSE), given(read, "action", Undefined))]
JSON_parse(frame) ==
    IF IsGarbage(frame) THEN [threw |-> TRUE, state |-> Null]
    ELSE [threw |-> FALSE,
          state |-> SyncState(given(frame, "filePath", Undefined),
                              given(frame, "line", NaN),
                              given(frame, "column", NaN),
                              given(frame, "source", Undefined),
                              given(frame, "isActive", FALSE),
                              given(frame, "action", Undefined))]

\* gson.fromJson(it, EditorState::class.java): throws on text that is not JSON; the
\* object is allocated without its constructor, so a member the text does not have
\* keeps the JVM default: null, 0, false.  null is written "null".
NullRef == "null"
gson_fromJson(frame) ==
    IF IsGarbage(frame) THEN [threw |-> TRUE, state |-> Null]
    ELSE [threw |-> FALSE,
          state |-> SyncState(given(frame, "filePath", NullRef),
                              given(frame, "line", 0),
                              given(frame, "column", 0),
                              given(frame, "source", NullRef),
                              given(frame, "isActive", FALSE),
                              given(frame, "action", NullRef))]

\* -------------------------------------------------------------- transports
\* cs: the dialer's end (WebSocketClient.readyState and how far its callbacks ran)
\*   free        no object
\*   new         constructed, connectBlocking not yet called
\*   connecting  connectBlocking running
\*   opening     the listener accepted, onOpen not yet run
\*   open        onOpen ran, isOpen
\*   closing     not open any more, onClose not yet run
\*   closed      onClose ran
\* and for a client that is not the plugin: x_connecting, x_open, x_closed
\* url: the request path the client connects with
\* ss: the listener's end (the ws object of the 'connection' event)
\*   none, open, closing (close() called or the peer went away, 'close' not yet
\*   emitted), closed
FreeConn ==
    [port |-> 0, url |-> "/jetbrains", cs |-> "free", ss |-> "none", toV |-> <<>>,
     toJ |-> <<>>, waiter |-> FALSE, inHandler |-> FALSE]

\* WebSocketClient(URI("ws://localhost:${port}/jetbrains"))
NewConn(port) == [FreeConn EXCEPT !.port = port, !.url = "/jetbrains", !.cs = "new"]

ClientIsOpen(c) == c.cs = "open"
ServerIsOpen(c) == c.ss = "open"

\* A transport object nothing can reach any more is dropped, and frames sent to an
\* end that is gone are lost.
Dead(c, id, ws, cl) ==
    /\ id # ws
    /\ id # cl
    /\ ~c.waiter
    /\ ~c.inHandler
    /\ \/ c.cs = "new"
       \/ c.cs \in {"closed", "x_closed"} /\ c.ss \in {"none", "closed"}

Settle(cs, ws, cl) ==
    [id \in ConnIds |->
        IF Dead(cs[id], id, ws, cl) THEN FreeConn
        ELSE [cs[id] EXCEPT
                !.toV = IF cs[id].ss \in {"closed"} \/ (cs[id].ss = "none" /\ cs[id].cs = "closed")
                        THEN <<>> ELSE @,
                !.toJ = IF cs[id].cs \in {"closing", "closed", "x_closed"} THEN <<>> ELSE @]]

FreeIds(cs) == {id \in ConnIds : cs[id].cs = "free"}
FirstFree(cs) == CHOOSE id \in FreeIds(cs) : \A o \in FreeIds(cs) : id <= o


Listening(port) == v_wss # Null /\ v_wss.st = "listening" /\ v_wss.port = port

\* What a step records of itself: the handler that ran, the message it received or
\* applied, the candidates its listeners passed to updateState, and the frames it
\* put on the wire.
Step(op, msg, offered, sent) == [op |-> op, msg |-> msg, offered |-> offered, sent |-> sent]
Last(op, msg, sent) == Step(op, msg, <<>>, sent)

RemoveAt(s, i) == SubSeq(s, 1, i - 1) \o SubSeq(s, i + 1, Len(s))

\* ================================================================= VSCode
\* updateStatusBarItem: the icon it renders.
updateStatusBarItem(connected, auto) ==
    IF connected THEN "check" ELSE IF ~auto THEN "sync-ignored" ELSE "sync~spin"

\* this.jetbrainsClient?.readyState === WebSocket.OPEN
VS_clientOpen == v_jetbrainsClient # 0 /\ ServerIsOpen(conns[v_jetbrainsClient])

\* updateState(state) on W = [cur: currentState, out: frames sent so far].
VS_shouldSend_always(state, active) == TRUE
VS_shouldSend(state, active) == state.action = "close" \/ active

\* A listener that keeps only what it has sent.
VS_updateState_sentOnly(W, active, state) ==
    IF VS_clientOpen /\ VS_shouldSend(state, active)
    THEN [W EXCEPT !.cur = state, !.out = Append(@, state)]
    ELSE W

VS_updateState(W, active, state) ==
    [W EXCEPT !.cur = state,
              !.out = IF VS_clientOpen /\ VS_shouldSend(state, active)
                      THEN Append(@, state) ELSE @]

RECURSIVE VS_updateAll(_, _, _)
VS_updateAll(W, active, states) ==
    IF states = <<>> THEN W
    ELSE VS_updateAll(VS_updateState(W, active, Head(states)), active, Tail(states))

\* The four editor listeners of setupEditorListeners: each returns at once while
\* isHandlingExternalUpdate is set, and otherwise calls updateState.
VS_editorListeners(flag, candidates) ==
    IF flag THEN [cur |-> v_currentState, out |-> <<>>, offered |-> <<>>]
    ELSE [VS_updateAll([cur |-> v_currentState, out |-> <<>>, offered |-> <<>>],
                       v_isActive, candidates)
          EXCEPT !.offered = candidates]

\* The candidates the listeners build when the editor goes from the current tabs,
\* active editor and selection to the given ones: onDidChangeTabs for a closed tab,
\* onDidChangeActiveTextEditor for a new active editor (shown with its caret at
\* shown), onDidChangeTextEditorSelection for a caret move in the active editor.
VS_candidates(tabs, active, shown, selection) ==
    LET closed == v_tabs \ tabs
        c1 == IF closed = {} THEN <<>>
              ELSE <<CloseMsg(CHOOSE f \in closed : TRUE, "vscode", v_isActive)>>
        c2 == IF active # v_activeEditor /\ active # NoFile
              THEN <<SelectMsg(active, shown, "vscode", v_isActive)>> ELSE <<>>
        c3 == IF active # NoFile /\ selection # shown
              THEN <<SelectMsg(active, selection, "vscode", v_isActive)>> ELSE <<>>
    IN c1 \o c2 \o c3

\* jetbrainsClient.send for each frame of out.
VS_send(out) ==
    /\ out # <<>> => Len(conns[v_jetbrainsClient].toJ) + Len(out) <= MaxQueue
    /\ conns' = IF out = <<>> THEN conns
                ELSE [conns EXCEPT ![v_jetbrainsClient].toJ = @ \o out]

\* toggleAutoReconnect
VS_toggleAutoReconnect ==
    /\ ctlLeft > 0
    /\ ctlLeft' = ctlLeft - 1
    /\ v_autoReconnect' = ~v_autoReconnect
    /\ IF v_autoReconnect
       THEN /\ conns' = Settle(
                  IF v_jetbrainsClient # 0 /\ conns[v_jetbrainsClient].ss = "open"
                  THEN [conns EXCEPT ![v_jetbrainsClient].ss = "closing"] ELSE conns,
                  j_webSocket, 0)
            /\ v_jetbrainsClient' = 0
            /\ v_wss' = Null
            /\ v_isConnected' = FALSE
       ELSE \* setupServer: a new WebSocketServer on the configured port
            /\ v_wss' = [port |-> v_port, st |-> "binding"]
            /\ UNCHANGED <<conns, v_jetbrainsClient, v_isConnected>>
    /\ v_statusIcon' = updateStatusBarItem(v_isConnected', v_autoReconnect')
    /\ last' = Last("VS_toggleAutoReconnect", Null, <<>>)
    /\ UNCHANGED <<v_port, vsSyncVars, vsEditorVars, jbConnVars, jbSyncVars, jbEditorVars, userLeft>>

\* wss 'listening': the bind succeeded.
VS_listening ==
    /\ v_wss # Null /\ v_wss.st = "binding"
    /\ v_wss' = [v_wss EXCEPT !.st = "listening"]
    /\ last' = Last("VS_listening", Null, <<>>)
    /\ UNCHANGED <<conns, v_jetbrainsClient, v_isConnected, v_autoReconnect, v_statusIcon,
                   v_port, vsSyncVars, vsEditorVars, jbConnVars, jbSyncVars, jbEditorVars,
                   userLeft, ctlLeft>>

\* wss 'error': the bind failed (the port is in use); the handler logs and shows a
\* message, nothing else.
VS_wssError ==
    /\ v_wss # Null /\ v_wss.st = "binding"
    /\ v_wss' = [v_wss EXCEPT !.st = "failed"]
    /\ last' = Last("VS_wssError", Null, <<>>)
    /\ UNCHANGED <<conns, v_jetbrainsClient, v_isConnected, v_autoReconnect, v_statusIcon,
                   v_port, vsSyncVars, vsEditorVars, jbConnVars, jbSyncVars, jbEditorVars,
                   userLeft, ctlLeft>>

\* request.url?.slice(1), for the request paths of the model
Urls == {"/jetbrains", "/vscode", "/"}
clientType(url) ==
    CASE url = "/jetbrains" -> "jetbrains"
      [] url = "/vscode" -> "vscode"
      [] url = "/" -> ""

\* wss 'connection': if (clientType === 'jetbrains')
VS_admits_any(url) == TRUE
VS_admits(url) == clientType(url) = "jetbrains"

\* wss 'connection': the handshake of the client is over.  A jetbrains client
\* replaces the current one, which is closed; any other socket is closed before a
\* handler is registered on it.
VS_onConnection(c) ==
    /\ conns[c].cs \in {"connecting", "x_connecting"} /\ conns[c].ss = "none"
    /\ Listening(conns[c].port)
    /\ LET opened == IF conns[c].cs = "connecting" THEN "opening" ELSE "x_open"
       IN IF VS_admits(conns[c].url)
          THEN /\ LET old == v_jetbrainsClient
                      c1 == IF old # 0 /\ conns[old].ss = "open"
                            THEN [conns EXCEPT ![old].ss = "closing"] ELSE conns
                  IN conns' = Settle([c1 EXCEPT ![c].ss = "open", ![c].cs = opened],
                                     j_webSocket, c)
               /\ v_jetbrainsClient' = c
               /\ v_isConnected' = TRUE
               /\ v_statusIcon' = updateStatusBarItem(TRUE, v_autoReconnect)
          ELSE /\ conns' = Settle([conns EXCEPT ![c].ss = "closing", ![c].cs = opened],
                                  j_webSocket, v_jetbrainsClient)
               /\ UNCHANGED <<v_jetbrainsClient, v_isConnected, v_statusIcon>>
    /\ last' = Last("VS_onConnection", Null, <<>>)
    /\ UNCHANGED <<v_wss, v_autoReconnect, v_port, vsSyncVars, vsEditorVars, jbConnVars,
                   jbSyncVars, jbEditorVars, userLeft, ctlLeft>>

\* ws 'close'
VS_onClose(c) ==
    /\ \/ conns[c].ss = "closing"
       \/ conns[c].ss = "open" /\ conns[c].cs \in {"closing", "closed", "x_closed"}
    /\ LET mine == v_jetbrainsClient = c
       IN /\ v_jetbrainsClient' = IF mine THEN 0 ELSE v_jetbrainsClient
          /\ v_isConnected' = IF mine THEN FALSE ELSE v_isConnected
          /\ v_statusIcon' = IF mine THEN updateStatusBarItem(FALSE, v_autoReconnect)
                             ELSE v_statusIcon
    /\ conns' = Settle([conns EXCEPT ![c].ss = "closed"], j_webSocket, v_jetbrainsClient')
    /\ last' = Last("VS_onClose", Null, <<>>)
    /\ UNCHANGED <<v_wss, v_autoReconnect, v_port, vsSyncVars, vsEditorVars, jbConnVars,
                   jbSyncVars, jbEditorVars, userLeft, ctlLeft>>

\* handleIncomingState: if (state.source === 'vscode') return
VS_fromSelf_never(state) == FALSE
VS_fromSelf(state) == state.source = "vscode"

\* handleIncomingState: if (!state.isActive) return, before the select branch
VS_fromInactive_never(state) == FALSE
VS_fromInactive(state) == ~state.isActive

\* vscode.Uri.file(state.filePath) throws when filePath is undefined: in the close
\* branch catch and finally run and control reaches the select code, where it
\* throws again; in both the handler is over with the flag cleared.
VS_UriFileThrows(state) == state.filePath = Undefined

\* new vscode.Position(state.line, state.column) after the document is shown: with
\* an undefined line or column the place of the caret is not determined by the
\* extension's code.
VS_Position(state) ==
    IF state.line = NaN \/ state.column = NaN THEN Positions
    ELSE {<<state.line, state.column>>}

\* ws 'message': JSON.parse, then the synchronous part of handleIncomingState, up to
\* its first await.  A close whose file has no tab is over in this step.
VS_onMessage(c) ==
    /\ conns[c].toV # <<>>
    /\ conns[c].ss \in {"open", "closing"}
    /\ VS_admits(conns[c].url)
    /\ LET frame == Head(conns[c].toV)
           parsed == JSON_parse(frame)
           state == parsed.state
           found == state.filePath \in v_tabs
           suspend(pc) ==
               /\ Len(v_pending) < MaxTasks
               /\ v_pending' = Append(v_pending, [msg |-> state, pc |-> pc])
               /\ v_isHandlingExternalUpdate' = TRUE
       IN /\ IF parsed.threw
             THEN UNCHANGED <<v_pending, v_isHandlingExternalUpdate>>
             ELSE IF VS_fromSelf(state)
             THEN UNCHANGED <<v_pending, v_isHandlingExternalUpdate>>
             ELSE IF state.action = "close"
             THEN IF found
                  THEN suspend("close")
                  ELSE /\ v_isHandlingExternalUpdate' = FALSE
                       /\ UNCHANGED v_pending
             ELSE IF VS_fromInactive(state)
             THEN UNCHANGED <<v_pending, v_isHandlingExternalUpdate>>
             ELSE IF VS_UriFileThrows(state)
             THEN /\ v_isHandlingExternalUpdate' = FALSE
                  /\ UNCHANGED v_pending
             ELSE suspend("select")
          /\ last' = Last("VS_onMessage", frame, <<>>)
    /\ conns' = [conns EXCEPT ![c].toV = Tail(@)]
    /\ UNCHANGED <<vsConnVars, v_currentState, v_isActive, vsEditorVars, jbConnVars,
                   jbSyncVars, jbEditorVars, userLeft, ctlLeft>>

\* handleIncomingState: finally { this.isHandlingExternalUpdate = false }
VS_finally_skipped == v_isHandlingExternalUpdate
VS_finally == FALSE

\* A frame arrives on a socket the 'connection' handler closed without registering
\* a 'message' handler on it: nothing runs.
VS_noHandler(c) ==
    /\ conns[c].toV # <<>>
    /\ conns[c].ss \in {"open", "closing"}
    /\ ~VS_admits(conns[c].url)
    /\ conns' = [conns EXCEPT ![c].toV = Tail(@)]
    /\ last' = Last("VS_noHandler", Head(conns[c].toV), <<>>)
    /\ UNCHANGED <<vsConnVars, vsSyncVars, vsEditorVars, jbConnVars, jbSyncVars,
                   jbEditorVars, userLeft, ctlLeft>>

\* The editor after the tab of f is closed: another tab becomes the active one.
VS_afterClose(f, active, selection) ==
    /\ v_tabs' = v_tabs \ {f}
    /\ v_closedDocs' = v_closedDocs \cup {f}
    /\ v_activeEditor' = active
    /\ v_selection' = selection
    /\ IF v_activeEditor # f
       THEN active = v_activeEditor /\ selection = v_selection
       ELSE IF v_tabs \ {f} = {}
       THEN active = NoFile /\ selection = Origin
       ELSE active \in v_tabs \ {f}

\* await vscode.window.tabGroups.close(tab) resolved: the tab is gone, the listeners
\* have run, and the finally block clears the flag.
VS_closeResolved(i) ==
    /\ i \in 1 .. Len(v_pending)
    /\ v_pending[i].pc = "close"
    /\ v_pending[i].msg.filePath \in v_tabs
    /\ \E active \in Files \cup {NoFile}, selection \in Positions :
         /\ VS_afterClose(v_pending[i].msg.filePath, active, selection)
         /\ LET W == VS_editorListeners(v_isHandlingExternalUpdate,
                        VS_candidates(v_tabs', active, selection, selection))
            IN /\ v_currentState' = W.cur
               /\ VS_send(W.out)
               /\ last' = Step("VS_closeResolved", v_pending[i].msg, W.offered, W.out)
    /\ v_pending' = RemoveAt(v_pending, i)
    /\ v_isHandlingExternalUpdate' = VS_finally
    /\ UNCHANGED <<vsConnVars, v_isActive, jbConnVars, jbSyncVars, jbEditorVars, userLeft, ctlLeft>>

\* await vscode.window.tabGroups.close(tab) threw: catch logs, finally clears the
\* flag, and control leaves the if block and reaches the select code below it.
VS_closeRejected(i) ==
    /\ i \in 1 .. Len(v_pending)
    /\ v_pending[i].pc = "close"
    /\ IF v_pending[i].msg.isActive
       THEN /\ v_pending' = [v_pending EXCEPT ![i].pc = "select"]
            /\ v_isHandlingExternalUpdate' = TRUE
       ELSE /\ v_pending' = RemoveAt(v_pending, i)
            /\ v_isHandlingExternalUpdate' = VS_finally
    /\ last' = Last("VS_closeRejected", v_pending[i].msg, <<>>)
    /\ UNCHANGED <<conns, vsConnVars, v_currentState, v_isActive, vsEditorVars, jbConnVars,
                   jbSyncVars, jbEditorVars, userLeft, ctlLeft>>

\* await openTextDocument / showTextDocument resolved: the file is the active editor,
\* then the selection is set and revealed, then the finally block clears the flag.
VS_showResolved(i) ==
    /\ i \in 1 .. Len(v_pending)
    /\ v_pending[i].pc = "select"
    /\ LET state == v_pending[i].msg
           f == state.filePath
       IN \E shown \in Positions, position \in VS_Position(state) :
            /\ IF f = v_activeEditor THEN shown = v_selection
               ELSE IF f \notin v_tabs THEN shown = Origin ELSE TRUE
            /\ v_tabs' = v_tabs \cup {f}
            /\ v_closedDocs' = v_closedDocs \ {f}
            /\ v_activeEditor' = f
            /\ v_selection' = position
            /\ LET W == VS_editorListeners(v_isHandlingExternalUpdate,
                           VS_candidates(v_tabs', f, shown, position))
               IN /\ v_currentState' = W.cur
                  /\ VS_send(W.out)
                  /\ last' = Step("VS_showResolved", state, W.offered, W.out)
    /\ v_pending' = RemoveAt(v_pending, i)
    /\ v_isHandlingExternalUpdate' = VS_finally
    /\ UNCHANGED <<vsConnVars, v_isActive, jbConnVars, jbSyncVars, jbEditorVars, userLeft, ctlLeft>>

\* await openTextDocument / showTextDocument threw: catch, then finally.
VS_showRejected(i) ==
    /\ i \in 1 .. Len(v_pending)
    /\ v_pending[i].pc = "select"
    /\ v_pending' = RemoveAt(v_pending, i)
    /\ v_isHandlingExternalUpdate' = VS_finally
    /\ last' = Last("VS_showRejected", v_pending[i].msg, <<>>)
    /\ UNCHANGED <<conns, vsConnVars, v_currentState, v_isActive, vsEditorVars, jbConnVars,
                   jbSyncVars, jbEditorVars, userLeft, ctlLeft>>

\* ------------------------------------------------------ VSCode local events
VS_localEvent(op, tabs, active, shown, selection) ==
    /\ userLeft > 0
    /\ userLeft' = userLeft - 1
    /\ LET cands == VS_candidates(tabs, active, shown, selection)
           W == VS_editorListeners(v_isHandlingExternalUpdate, cands)
       IN /\ v_currentState' = W.cur
          /\ VS_send(W.out)
          /\ last' = Step(op, Null, W.offered, W.out)
    /\ UNCHANGED <<vsConnVars, v_isActive, v_isHandlingExternalUpdate, v_pending,
                   jbConnVars, jbSyncVars, jbEditorVars, ctlLeft>>

\* The user moves the caret in the active editor.
VS_userSelect(position) ==
    /\ v_activeEditor # NoFile
    /\ position # v_selection
    /\ v_selection' = position
    /\ UNCHANGED <<v_tabs, v_activeEditor, v_closedDocs>>
    /\ VS_localEvent("VS_userSelect", v_tabs, v_activeEditor, v_selection, position)

\* The user opens a file or switches to its tab.
VS_userOpen(f) ==
    /\ f # v_activeEditor
    /\ \E shown \in Positions :
         /\ f \notin v_tabs => shown = Origin
         /\ v_tabs' = v_tabs \cup {f}
         /\ v_closedDocs' = v_closedDocs \ {f}
         /\ v_activeEditor' = f
         /\ v_selection' = shown
         /\ VS_localEvent("VS_userOpen", v_tabs', f, shown, shown)

\* The user closes a tab.
VS_userCloseTab(f) ==
    /\ f \in v_tabs
    /\ \E active \in Files \cup {NoFile}, selection \in Positions :
         /\ VS_afterClose(f, active, selection)
         /\ VS_localEvent("VS_userCloseTab", v_tabs', active, selection, selection)

\* onDidCloseTextDocument: the editor disposes the document of a closed tab.
VS_docClosed(f) ==
    /\ f \in v_closedDocs
    /\ v_closedDocs' = v_closedDocs \ {f}
    /\ LET cand == CloseMsg(f, "vscode", v_isActive)
           W == VS_editorListeners(v_isHandlingExternalUpdate, <<cand>>)
       IN /\ v_currentState' = W.cur
          /\ VS_send(W.out)
          /\ last' = Step("VS_docClosed", Null, W.offered, W.out)
    /\ UNCHANGED <<vsConnVars, v_isActive, v_isHandlingExternalUpdate, v_pending, v_tabs,
                   v_activeEditor, v_selection, jbConnVars, jbSyncVars, jbEditorVars,
                   userLeft, ctlLeft>>

\* onDidChangeWindowState
VS_windowState(focused) ==
    /\ userLeft > 0
    /\ userLeft' = userLeft - 1
    /\ v_isActive' = focused
    /\ LET state == [v_currentState EXCEPT !.isActive = focused, !.source = "vscode"]
           W == IF v_currentState = Null THEN [cur |-> Null, out |-> <<>>, offered |-> <<>>]
                ELSE VS_updateState([cur |-> v_currentState, out |-> <<>>,
                                     offered |-> <<state>>], focused, state)
       IN /\ v_currentState' = W.cur
          /\ VS_send(W.out)
          /\ last' = Step("VS_windowState", Null, W.offered, W.out)
    /\ UNCHANGED <<vsConnVars, v_isHandlingExternalUpdate, v_pending, vsEditorVars,
                   jbConnVars, jbSyncVars, jbEditorVars, ctlLeft>>

\* The user changes vscode-jetbrains-sync.port; the extension registers no
\* configuration listener, the value is read by the next setupServer.
VS_configPort(port) ==
    /\ ctlLeft > 0
    /\ ctlLeft' = ctlLeft - 1
    /\ port # v_port
    /\ v_port' = port
    /\ last' = Last("VS_configPort", Null, <<>>)
    /\ UNCHANGED <<conns, v_wss, v_jetbrainsClient, v_isConnected, v_autoReconnect,
                   v_statusIcon, vsSyncVars, vsEditorVars, jbConnVars, jbSyncVars,
                   jbEditorVars, userLeft>>

\* ============================================================== JetBrains
\* The service fields a handler reads and writes, as one value: a handler is a
\* composition of the functions below on it.  ok turns false when a bound of the
\* model (MaxConn, MaxQueue, MaxSleep) would be exceeded; such a step is not taken.
JB_fields ==
    [flag |-> j_isHandlingExternalUpdate, active |-> j_isActive, auto |-> j_autoReconnect,
     connected |-> j_isConnected, recon |-> j_isReconnecting, ws |-> j_webSocket,
     port |-> j_port, conns |-> conns, tasks |-> j_connectTasks, sleeping |-> j_sleeping, due |-> j_due,
     listeners |-> j_caretListeners, offered |-> <<>>, sent |-> <<>>, ok |-> TRUE]

JB_commit(S) ==
    /\ S.ok
    /\ j_isHandlingExternalUpdate' = S.flag
    /\ j_isActive' = S.active
    /\ j_autoReconnect' = S.auto
    /\ j_isConnected' = S.connected
    /\ j_isReconnecting' = S.recon
    /\ j_webSocket' = S.ws
    /\ j_port' = S.port
    /\ conns' = Settle(S.conns, S.ws, v_jetbrainsClient)
    /\ j_connectTasks' = S.tasks
    /\ j_sleeping' = S.sleeping
    /\ j_due' = S.due
    /\ j_caretListeners' = S.listeners

\* connectWebSocket: a new WebSocketClient for the configured port replaces the
\* field (the object it held is not closed), and a pooled task is started that will
\* call connectBlocking.
JB_connectWebSocket_idle(S) == S
\* A service that dials whether or not sync is enabled.
JB_connectWebSocket_always(S) ==
    IF FreeIds(S.conns) = {} THEN [S EXCEPT !.ok = FALSE]
    ELSE LET id == FirstFree(S.conns)
         IN [S EXCEPT !.recon = TRUE, !.ws = id, !.conns[id] = NewConn(S.port),
                      !.tasks = @ + 1]
JB_connectWebSocket(S) ==
    IF ~S.auto THEN [S EXCEPT !.recon = FALSE]
    ELSE IF FreeIds(S.conns) = {} THEN [S EXCEPT !.ok = FALSE]
    ELSE LET id == FirstFree(S.conns)
         IN [S EXCEPT !.recon = TRUE, !.ws = id, !.conns[id] = NewConn(S.port),
                      !.tasks = @ + 1]

\* A service that never schedules a retry.
JB_scheduleRetry_never(S) == S

\* executeOnPooledThread { Thread.sleep(5000); invokeLater { connectWebSocket() } }
JB_scheduleRetry(S) ==
    IF S.sleeping + S.due >= MaxSleep THEN [S EXCEPT !.ok = FALSE]
    ELSE [S EXCEPT !.sleeping = @ + 1]

JB_shouldSend_always(state, active) == TRUE
JB_shouldSend(state, active) == state.action = "close" \/ active

\* client.send(jsonState)
JB_send(S, state) ==
    IF Len(S.conns[S.ws].toV) >= MaxQueue THEN [S EXCEPT !.ok = FALSE]
    ELSE [S EXCEPT !.conns[S.ws].toV = Append(@, state), !.sent = Append(@, state)]

\* updateState(state)
JB_updateState(S0, state) ==
    LET S == [S0 EXCEPT !.offered = Append(@, state)]
    IN IF S.flag THEN S
       ELSE IF S.ws = 0 THEN JB_connectWebSocket(S)
       ELSE IF ClientIsOpen(S.conns[S.ws])
       THEN IF JB_shouldSend(state, S.active) THEN JB_send(S, state) ELSE S
       ELSE IF ~S.recon THEN JB_connectWebSocket(S) ELSE S

\* updateStateFromEditor(editor, file)
JB_updateStateFromEditor_stale(S, f, caret) ==
    JB_updateState(S, SelectMsg(f, caret, "jetbrains", j_isActive))
JB_updateStateFromEditor(S, f, caret) ==
    JB_updateState(S, SelectMsg(f, caret, "jetbrains", S.active))

\* setupCaretListener(editor, file)
JB_setupCaretListener(S, f) == [S EXCEPT !.listeners = @ \cup {f}]

\* fileOpened and selectionChanged: the same body.
JB_selectionChanged(S, f, caret) ==
    IF S.flag \/ f = NoFile THEN S
    ELSE JB_setupCaretListener(JB_updateStateFromEditor(S, f, caret), f)

\* fileClosed
JB_fileClosed(S, f) ==
    IF S.flag THEN S
    ELSE JB_updateState(S, CloseMsg(f, "jetbrains", S.active))

\* CaretListener.caretPositionChanged, where a listener is installed on the editor
JB_caretPositionChanged(S, f, caret) ==
    IF f \notin S.listeners \/ S.flag THEN S
    ELSE JB_updateStateFromEditor(S, f, caret)

\* The listeners the editor runs when the file f is opened or selected with its
\* caret at shown, and the caret is then put at caret.
JB_opened(S, f, shown, caret) ==
    LET s1 == IF f \notin j_openFiles THEN JB_selectionChanged(S, f, shown) ELSE S
        s2 == IF f # j_selectedFile THEN JB_selectionChanged(s1, f, shown) ELSE s1
    IN IF caret # shown THEN JB_caretPositionChanged(s2, f, caret) ELSE s2

\* The listeners the editor runs when the file f is closed and selected becomes
\* the selected file.
JB_closed(S, f, selected, caret) ==
    LET s1 == [JB_fileClosed(S, f) EXCEPT !.listeners = @ \ {f}]
    IN IF selected # j_selectedFile THEN JB_selectionChanged(s1, selected, caret) ELSE s1

\* The editor after f is closed.
JB_afterClose(f, selected, caret) ==
    /\ j_openFiles' = j_openFiles \ {f}
    /\ j_selectedFile' = selected
    /\ j_caret' = caret
    /\ IF j_selectedFile # f
       THEN selected = j_selectedFile /\ caret = j_caret
       ELSE IF j_openFiles \ {f} = {}
       THEN selected = NoFile /\ caret = Origin
       ELSE selected \in j_openFiles \ {f}

\* The editor after f is opened or selected.
JB_afterOpen(f, shown, caret) ==
    /\ IF f = j_selectedFile THEN shown = j_caret
       ELSE IF f \notin j_openFiles THEN shown = Origin ELSE TRUE
    /\ j_openFiles' = j_openFiles \cup {f}
    /\ j_selectedFile' = f
    /\ j_caret' = caret

\* toggleAutoReconnect
JB_toggleAutoReconnect ==
    /\ ctlLeft > 0
    /\ ctlLeft' = ctlLeft - 1
    /\ LET S == JB_fields
           off == [S EXCEPT !.auto = FALSE,
                     !.conns = IF S.ws # 0 /\ ClientIsOpen(S.conns[S.ws])
                               THEN [S.conns EXCEPT ![S.ws].cs = "closing"] ELSE S.conns,
                     !.ws = 0, !.connected = FALSE, !.recon = FALSE]
           on == JB_connectWebSocket([S EXCEPT !.auto = TRUE, !.recon = TRUE])
       IN JB_commit(IF j_autoReconnect THEN off ELSE on)
    /\ last' = Last("JB_toggleAutoReconnect", Null, <<>>)
    /\ UNCHANGED <<vsConnVars, vsSyncVars, vsEditorVars, j_edt, j_openFiles,
                   j_selectedFile, j_caret, userLeft>>

\* The pooled task of connectWebSocket: webSocket?.connectBlocking() on the field as
\* it is now.  A null field gives a null result and the retry; an object whose
\* connect was already started throws in the task, which ends.
JB_connectTask ==
    /\ j_connectTasks > 0
    /\ LET S == [JB_fields EXCEPT !.tasks = @ - 1]
       IN JB_commit(
            IF S.ws = 0 THEN JB_scheduleRetry([S EXCEPT !.recon = TRUE])
            ELSE IF S.conns[S.ws].cs = "new"
            THEN [S EXCEPT !.conns[S.ws].cs = "connecting", !.conns[S.ws].waiter = TRUE]
            ELSE S)
    /\ last' = Last("JB_connectTask", Null, <<>>)
    /\ UNCHANGED <<vsConnVars, vsSyncVars, vsEditorVars, j_edt, j_openFiles,
                   j_selectedFile, j_caret, userLeft, ctlLeft>>

\* onClose
JB_onCloseBody_idle(S) == S
JB_onCloseBody(S) ==
    LET s1 == [S EXCEPT !.connected = FALSE]
    IN IF ~s1.recon /\ s1.auto THEN JB_scheduleRetry([s1 EXCEPT !.recon = TRUE]) ELSE s1

\* Nothing listens on the port: onError, then onClose.
JB_connectRefused(c) ==
    /\ conns[c].cs = "connecting" /\ conns[c].ss = "none"
    /\ ~Listening(conns[c].port)
    /\ LET S == JB_fields
       IN JB_commit(JB_onCloseBody([S EXCEPT !.connected = FALSE, !.conns[c].cs = "closed"]))
    /\ last' = Last("JB_connectRefused", Null, <<>>)
    /\ UNCHANGED <<vsConnVars, vsSyncVars, vsEditorVars, j_edt, j_openFiles,
                   j_selectedFile, j_caret, userLeft, ctlLeft>>

\* onOpen
JB_onOpen(c) ==
    /\ conns[c].cs = "opening"
    /\ LET S == [JB_fields EXCEPT !.conns[c].cs = "open", !.connected = TRUE, !.recon = FALSE]
           T == IF j_selectedFile # NoFile
                THEN JB_updateStateFromEditor(S, j_selectedFile, j_caret) ELSE S
       IN /\ JB_commit(T)
          /\ last' = Step("JB_onOpen", Null, T.offered, T.sent)
    /\ UNCHANGED <<vsConnVars, vsSyncVars, vsEditorVars, j_edt, j_openFiles,
                   j_selectedFile, j_caret, userLeft, ctlLeft>>

\* connectBlocking returns in the pooled task.
JB_connectReturn(c) ==
    /\ conns[c].waiter
    /\ conns[c].cs \in {"open", "closing", "closed"}
    /\ LET S == [JB_fields EXCEPT !.conns[c].waiter = FALSE]
       IN JB_commit(IF conns[c].cs = "open" THEN S
                    ELSE JB_scheduleRetry([S EXCEPT !.recon = TRUE]))
    /\ last' = Last("JB_connectReturn", Null, <<>>)
    /\ UNCHANGED <<vsConnVars, vsSyncVars, vsEditorVars, j_edt, j_openFiles,
                   j_selectedFile, j_caret, userLeft, ctlLeft>>

\* Thread.sleep(5000) is over: invokeLater { connectWebSocket() }
JB_retry ==
    /\ j_due > 0
    /\ JB_commit(JB_connectWebSocket([JB_fields EXCEPT !.due = @ - 1]))
    /\ last' = Last("JB_retry", Null, <<>>)
    /\ UNCHANGED <<vsConnVars, vsSyncVars, vsEditorVars, j_edt, j_openFiles,
                   j_selectedFile, j_caret, userLeft, ctlLeft>>

\* The listener's end went away: the client is not open any more.
JB_netClosed(c) ==
    /\ conns[c].cs = "open"
    /\ conns[c].ss \in {"closing", "closed"}
    /\ ~conns[c].inHandler
    /\ JB_commit([JB_fields EXCEPT !.conns[c].cs = "closing"])
    /\ last' = Last("JB_netClosed", Null, <<>>)
    /\ UNCHANGED <<vsConnVars, vsSyncVars, vsEditorVars, j_edt, j_openFiles,
                   j_selectedFile, j_caret, userLeft, ctlLeft>>

JB_onClose(c) ==
    /\ conns[c].cs = "closing"
    /\ ~conns[c].inHandler
    /\ JB_commit(JB_onCloseBody([JB_fields EXCEPT !.conns[c].cs = "closed"]))
    /\ last' = Last("JB_onClose", Null, <<>>)
    /\ UNCHANGED <<vsConnVars, vsSyncVars, vsEditorVars, j_edt, j_openFiles,
                   j_selectedFile, j_caret, userLeft, ctlLeft>>

\* restartConnection, called when the port setting is applied.
JB_restartConnection(S) ==
    JB_connectWebSocket(
        [S EXCEPT !.conns = IF S.ws # 0 /\ ClientIsOpen(S.conns[S.ws])
                            THEN [S.conns EXCEPT ![S.ws].cs = "closing"] ELSE S.conns,
                  !.ws = 0, !.connected = FALSE])

JB_configPort(port) ==
    /\ ctlLeft > 0
    /\ ctlLeft' = ctlLeft - 1
    /\ port # j_port
    /\ JB_commit(JB_restartConnection([JB_fields EXCEPT !.port = port]))
    /\ last' = Last("JB_configPort", Null, <<>>)
    /\ UNCHANGED <<vsConnVars, vsSyncVars, vsEditorVars, j_edt, j_openFiles,
                   j_selectedFile, j_caret, userLeft>>

\* onMessage: if (state.source != "jetbrains") handleIncomingState(state)
JB_fromOther(state) == state.source # "jetbrains"

\* handleIncomingState: a close is always handled, a select only if the message
\* says the sender is active.
JB_handled_ifActive(state) == state.isActive
JB_handled(state) == state.action = "close" \/ state.isActive

\* onMessage: gson.fromJson, the source test, then the body of handleIncomingState
\* up to its finally block: the flag is set and the apply is queued on the EDT.
JB_onMessage(c) ==
    /\ conns[c].cs = "open"
    /\ conns[c].toJ # <<>>
    /\ ~conns[c].inHandler
    /\ LET frame == Head(conns[c].toJ)
           parsed == gson_fromJson(frame)
           state == parsed.state
           S == [JB_fields EXCEPT !.conns[c].toJ = Tail(@)]
           handled == ~parsed.threw /\ JB_fromOther(state) /\ JB_handled(state)
       IN /\ IF handled
             THEN /\ Len(j_edt) < MaxTasks
                  /\ j_edt' = Append(j_edt, state)
                  /\ JB_commit([S EXCEPT !.flag = TRUE, !.conns[c].inHandler = TRUE])
             ELSE /\ j_edt' = j_edt
                  /\ JB_commit(S)
          /\ last' = Last("JB_onMessage", frame, <<>>)
    /\ UNCHANGED <<vsConnVars, vsSyncVars, vsEditorVars, j_openFiles, j_selectedFile,
                   j_caret, userLeft, ctlLeft>>

\* handleIncomingState: finally { isHandlingExternalUpdate = false }
JB_handlerExit_never(c) == FALSE
JB_handlerExit(c) ==
    /\ conns[c].inHandler
    /\ JB_commit([JB_fields EXCEPT !.flag = FALSE, !.conns[c].inHandler = FALSE])
    /\ last' = Last("JB_handlerExit", Null, <<>>)
    /\ UNCHANGED <<vsConnVars, vsSyncVars, vsEditorVars, j_edt, j_openFiles, j_selectedFile,
                   j_caret, userLeft, ctlLeft>>

\* The invokeLater block of handleIncomingState runs on the EDT.
JB_applyClose(state) ==
    LET f == state.filePath
    IN IF f \notin j_openFiles
       THEN /\ JB_commit(JB_fields)
            /\ last' = Last("JB_apply", state, <<>>)
            /\ UNCHANGED <<j_openFiles, j_selectedFile, j_caret>>
       ELSE \E selected \in Files \cup {NoFile}, caret \in Positions :
              /\ JB_afterClose(f, selected, caret)
              /\ LET T == JB_closed(JB_fields, f, selected, caret)
                 IN /\ JB_commit(T)
                    /\ last' = Step("JB_apply", state, T.offered, T.sent)

\* val position = LogicalPosition(state.line, state.column)
LogicalPosition_swapped(state) == <<state.column, state.line>>
LogicalPosition(state) == <<state.line, state.column>>

JB_applySelect(state) ==
    LET f == state.filePath
        position == LogicalPosition(state)
    IN \E shown \in Positions :
         /\ JB_afterOpen(f, shown, position)
         /\ LET T == JB_opened(JB_fields, f, shown, position)
            IN /\ JB_commit(T)
               /\ last' = Step("JB_apply", state, T.offered, T.sent)

\* val file = File(state.filePath) throws on a null path; the catch inside the
\* block logs it.
JB_applyThrows(state) ==
    /\ JB_commit(JB_fields)
    /\ last' = Last("JB_apply", state, <<>>)
    /\ UNCHANGED <<j_openFiles, j_selectedFile, j_caret>>

JB_apply ==
    /\ j_edt # <<>>
    /\ j_edt' = Tail(j_edt)
    /\ IF Head(j_edt).filePath = NullRef
       THEN JB_applyThrows(Head(j_edt))
       ELSE IF Head(j_edt).action = "close"
       THEN JB_applyClose(Head(j_edt))
       ELSE JB_applySelect(Head(j_edt))
    /\ UNCHANGED <<vsConnVars, vsSyncVars, vsEditorVars, userLeft, ctlLeft>>

\* --------------------------------------------------- JetBrains local events
JB_localEvent(op, T) ==
    /\ userLeft > 0
    /\ userLeft' = userLeft - 1
    /\ JB_commit(T)
    /\ last' = Step(op, Null, T.offered, T.sent)
    /\ UNCHANGED <<vsConnVars, vsSyncVars, vsEditorVars, j_edt, ctlLeft>>

\* The user moves the caret in the selected editor.
JB_userCaret(position) ==
    /\ j_selectedFile # NoFile
    /\ position # j_caret
    /\ j_caret' = position
    /\ UNCHANGED <<j_openFiles, j_selectedFile>>
    /\ JB_localEvent("JB_userCaret",
                     JB_caretPositionChanged(JB_fields, j_selectedFile, position))

\* The user opens a file or selects its tab.
JB_userOpen(f) ==
    /\ f # j_selectedFile
    /\ \E shown \in Positions :
         /\ JB_afterOpen(f, shown, shown)
         /\ JB_localEvent("JB_userOpen", JB_opened(JB_fields, f, shown, shown))

\* The user closes a file.
JB_userClose(f) ==
    /\ f \in j_openFiles
    /\ \E selected \in Files \cup {NoFile}, caret \in Positions :
         /\ JB_afterClose(f, selected, caret)
         /\ JB_localEvent("JB_userClose", JB_closed(JB_fields, f, selected, caret))

\* windowGainedFocus / windowLostFocus
JB_windowFocus(focused) ==
    /\ LET S == [JB_fields EXCEPT !.active = focused]
       IN JB_localEvent("JB_windowFocus",
                        IF j_selectedFile # NoFile
                        THEN JB_updateStateFromEditor(S, j_selectedFile, j_caret) ELSE S)
    /\ UNCHANGED <<j_openFiles, j_selectedFile, j_caret>>

\* ========================================================== other clients
\* A program that is not the plugin connects to the listener's port with some
\* request path.
Client_connect(port, url) ==
    /\ userLeft > 0
    /\ userLeft' = userLeft - 1
    /\ FreeIds(conns) # {}
    /\ conns' = [conns EXCEPT ![FirstFree(conns)] =
                    [FreeConn EXCEPT !.port = port, !.url = url, !.cs = "x_connecting"]]
    /\ last' = Last("Client_connect", Null, <<>>)
    /\ UNCHANGED <<vsConnVars, vsSyncVars, vsEditorVars, jbConnVars, jbSyncVars,
                   jbEditorVars, ctlLeft>>

\* It sends a well-formed frame as soon as its handshake is over.
Client_send(c, m) ==
    /\ userLeft > 0
    /\ userLeft' = userLeft - 1
    /\ conns[c].cs = "x_open"
    /\ Len(conns[c].toV) < MaxQueue
    /\ conns' = [conns EXCEPT ![c].toV = Append(@, m)]
    /\ last' = Last("Client_send", Null, <<>>)
    /\ UNCHANGED <<vsConnVars, vsSyncVars, vsEditorVars, jbConnVars, jbSyncVars,
                   jbEditorVars, ctlLeft>>

\* It sees the connection closed.
Client_gone(c) ==
    /\ conns[c].cs = "x_open"
    /\ conns[c].ss \in {"closing", "closed"}
    /\ conns' = Settle([conns EXCEPT ![c].cs = "x_closed"], j_webSocket, v_jetbrainsClient)
    /\ last' = Last("Client_gone", Null, <<>>)
    /\ UNCHANGED <<vsConnVars, vsSyncVars, vsEditorVars, jbConnVars, jbSyncVars,
                   jbEditorVars, userLeft, ctlLeft>>

\* ========================================================= specifications
\* The editors a peer can start with: any tabs, one of them selected, its caret
\* anywhere.
EditorStates ==
    {e \in [open : SUBSET Files, selected : Files \cup {NoFile}, caret : Positions] :
        IF e.open = {} THEN e.selected = NoFile /\ e.caret = Origin
        ELSE e.selected \in e.open}

\* The fields as the two constructors leave them: sync is off, no server, no client.
Constructed ==
    /\ conns = [id \in ConnIds |-> FreeConn]
    /\ v_wss = Null
    /\ v_jetbrainsClient = 0
    /\ v_currentState = Null
    /\ v_isConnected = FALSE
    /\ v_autoReconnect = FALSE
    /\ v_isHandlingExternalUpdate = FALSE
    /\ v_statusIcon = updateStatusBarItem(FALSE, FALSE)
    /\ v_port = DefaultPort
    /\ v_pending = <<>>
    /\ v_closedDocs = {}
    /\ j_webSocket = 0
    /\ j_isActive = FALSE
    /\ j_isHandlingExternalUpdate = FALSE
    /\ j_isConnected = FALSE
    /\ j_isReconnecting = FALSE
    /\ j_autoReconnect = FALSE
    /\ j_port = DefaultPort
    /\ j_edt = <<>>
    /\ j_connectTasks = 0
    /\ j_sleeping = 0
    /\ j_due = 0
    /\ waited = 0
    /\ j_caretListeners = {}
    /\ last = Last("init", Null, <<>>)

\* The fields after sync was enabled on both sides and the dialer's first attempt
\* went through, with nothing left to do: one transport, open at both ends.
ConnectedWith(port, toV, toJ) ==
    /\ conns = [id \in ConnIds |->
                  IF id = 1 THEN [NewConn(port) EXCEPT !.cs = "open", !.ss = "open",
                                                       !.toV = toV, !.toJ = toJ]
                  ELSE FreeConn]
    /\ v_wss = [port |-> port, st |-> "listening"]
    /\ v_jetbrainsClient = 1
    /\ v_isConnected = TRUE
    /\ v_autoReconnect = TRUE
    /\ v_isHandlingExternalUpdate = FALSE
    /\ v_statusIcon = updateStatusBarItem(TRUE, TRUE)
    /\ v_port = port
    /\ v_pending = <<>>
    /\ v_closedDocs = {}
    /\ j_webSocket = 1
    /\ j_isHandlingExternalUpdate = FALSE
    /\ j_isConnected = TRUE
    /\ j_isReconnecting = FALSE
    /\ j_autoReconnect = TRUE
    /\ j_port = port
    /\ j_edt = <<>>
    /\ j_connectTasks = 0
    /\ j_sleeping = 0
    /\ j_due = 0
    /\ waited = 0

ConnectedOn(port) == ConnectedWith(port, <<>>, <<>>)

VS_editorIs(e) ==
    /\ v_tabs = e.open
    /\ v_activeEditor = e.selected
    /\ v_selection = e.caret

JB_editorIs(e) ==
    /\ j_openFiles = e.open
    /\ j_selectedFile = e.selected
    /\ j_caret = e.caret

Init ==
    /\ Constructed
    /\ userLeft = MaxUser
    /\ ctlLeft = MaxCtl
    /\ v_isActive \in BOOLEAN
    /\ \E e \in EditorStates : VS_editorIs(e)
    /\ \E e \in EditorStates : JB_editorIs(e)

\* ------------------------------------------------------------------- time
\* The listener is enabled and bound on the port the dialer is enabled and
\* configured for.
Ready == v_autoReconnect /\ j_autoReconnect /\ Listening(j_port)
BothConnected == v_isConnected /\ j_isConnected

\* waited: the backoff intervals that have passed since the peers were last Ready
\* and not both Connected.
Clock(tick) ==
    waited' = IF Ready' /\ ~BothConnected'
              THEN IF tick /\ waited < MaxWait THEN waited + 1 ELSE waited
              ELSE 0

\* A step of a program takes no time to speak of next to the five seconds of a
\* retry sleep.
Timed(A) == A /\ Clock(FALSE)

\* ------------------------------------------------------------ the handlers
VS_toggle == Timed(VS_toggleAutoReconnect)

VS_port == \E port \in Ports : Timed(VS_configPort(port))

VS_bind ==
    \/ Timed(VS_listening)
    \/ Timed(VS_wssError)

VS_socket ==
    \/ \E c \in ConnIds : Timed(VS_onConnection(c))
    \/ \E c \in ConnIds : Timed(VS_onClose(c))

VS_transport == VS_bind \/ VS_socket

VS_incoming ==
    \/ \E c \in ConnIds : Timed(VS_onMessage(c))
    \/ \E i \in 1 .. MaxTasks : Timed(VS_closeResolved(i))
    \/ \E i \in 1 .. MaxTasks : Timed(VS_showResolved(i))

VS_applyFails ==
    \/ \E i \in 1 .. MaxTasks : Timed(VS_closeRejected(i))
    \/ \E i \in 1 .. MaxTasks : Timed(VS_showRejected(i))

\* The editor disposes the document of a closed tab, some time after the close.
VS_disposes == \E f \in Files : Timed(VS_docClosed(f))

VS_editor ==
    \/ \E position \in Positions : Timed(VS_userSelect(position))
    \/ \E f \in Files : Timed(VS_userOpen(f))
    \/ \E f \in Files : Timed(VS_userCloseTab(f))
    \/ VS_disposes

VS_focus == \E focused \in BOOLEAN : Timed(VS_windowState(focused))

JB_toggle == Timed(JB_toggleAutoReconnect)

JB_port == \E port \in Ports : Timed(JB_configPort(port))

JB_transport ==
    \/ Timed(JB_connectTask)
    \/ \E c \in ConnIds : Timed(JB_connectRefused(c))
    \/ \E c \in ConnIds : Timed(JB_onOpen(c))
    \/ \E c \in ConnIds : Timed(JB_connectReturn(c))
    \/ Timed(JB_retry)
    \/ \E c \in ConnIds : Timed(JB_netClosed(c))
    \/ \E c \in ConnIds : Timed(JB_onClose(c))

JB_incoming ==
    \/ \E c \in ConnIds : Timed(JB_onMessage(c))
    \/ \E c \in ConnIds : Timed(JB_handlerExit(c))
    \/ Timed(JB_apply)

JB_editor ==
    \/ \E position \in Positions : Timed(JB_userCaret(position))
    \/ \E f \in Files : Timed(JB_userOpen(f))
    \/ \E f \in Files : Timed(JB_userClose(f))

JB_focus == \E focused \in BOOLEAN : Timed(JB_windowFocus(focused))

\* The steps the two programs take by themselves.
System ==
    \/ VS_transport
    \/ VS_incoming
    \/ VS_applyFails
    \/ JB_transport
    \/ JB_incoming

\* Work one of the programs, the network or the editors still have to do before
\* anything sleeps: a bind or a handshake under way, a callback not yet run, a task
\* not yet started, a frame not yet delivered, an await not yet resolved.
Pending ==
    \/ v_wss # Null /\ v_wss.st = "binding"
    \/ v_pending # <<>>
    \/ j_edt # <<>>
    \/ j_connectTasks > 0
    \/ j_due > 0
    \/ \E c \in ConnIds :
         \/ conns[c].cs \in {"connecting", "opening", "closing", "x_connecting"}
         \/ conns[c].waiter /\ conns[c].cs \in {"open", "closed"}
         \/ conns[c].ss = "closing"
         \/ conns[c].ss = "open" /\ conns[c].cs \in {"closed", "x_closed"}
         \/ conns[c].cs \in {"open", "x_open"} /\ conns[c].ss = "closed"
         \/ conns[c].inHandler
         \/ conns[c].toV # <<>>
         \/ conns[c].toJ # <<>>

\* One backoff interval (Thread.sleep(5000)) passes: every retry task that was
\* sleeping is due.  Time passes only when nothing else is left to do.
Tick ==
    /\ ~Pending
    /\ j_sleeping > 0 \/ (Ready /\ ~BothConnected /\ waited < MaxWait)
    /\ j_due' = j_due + j_sleeping
    /\ j_sleeping' = 0
    /\ last' = Last("Tick", Null, <<>>)
    /\ UNCHANGED <<conns, vsConnVars, vsSyncVars, vsEditorVars, j_webSocket, j_isConnected,
                   j_isReconnecting, j_autoReconnect, j_port, j_connectTasks, jbSyncVars,
                   jbEditorVars, userLeft, ctlLeft>>
    /\ Clock(TRUE)

\* ------------------------------------------------------- the whole system
Next ==
    \/ VS_toggle \/ VS_port \/ VS_transport \/ VS_incoming \/ VS_applyFails
    \/ VS_editor \/ VS_focus
    \/ JB_toggle \/ JB_port \/ JB_transport \/ JB_incoming
    \/ JB_editor \/ JB_focus
    \/ Tick

Spec == Init /\ [][Next]_vars

\* ---------------------------------------------------- connection lifecycle
\* The connection managers alone, from construction: the user toggles sync on
\* either side; no window has the focus, so that no frame is sent.
ConnCtl == 4

InitConn ==
    /\ Constructed
    /\ userLeft = 0
    /\ ctlLeft = ConnCtl
    /\ v_isActive = FALSE
    /\ VS_editorIs([open |-> {"a"}, selected |-> "a", caret |-> Origin])
    /\ JB_editorIs([open |-> {"a"}, selected |-> "a", caret |-> Origin])

NextConn ==
    \/ VS_toggle \/ VS_transport
    \/ JB_toggle \/ JB_transport
    \/ Tick

SpecConn == InitConn /\ [][NextConn]_vars

\* C8 (reconnect convergence): while the listener is enabled and bound on the port
\* the dialer is enabled and configured for, a second backoff interval never
\* starts with the peers not both Connected: they reach Connected within one
\* interval of becoming ready, by the programs' own steps.
C8_ConnectedWithinOneBackoff == waited <= 1

\* One interval has passed since the peers were ready, the due retry has dialed
\* and the listener has accepted it.
C8_RetryAccepted ==
    /\ Ready
    /\ waited = 1
    /\ v_isConnected
    /\ \E c \in ConnIds : conns[c].cs = "opening" /\ j_webSocket = c

\* The same, with the listener's own steps taken when they can be.
SpecConnFair == SpecConn /\ WF_vars(VS_transport)

\* The listener's server is bound.
VS_isListening == v_wss # Null /\ v_wss.st = "listening"

\* C20 (only the user ends the session): the autoReconnect flag of a peer changes
\* only in its toggle handler, and a peer that is enabled gets back on the way to
\* Connected by itself: the enabled listener comes to listen again, unless the
\* user disables it first.
C20_OnlyUserEndsSession ==
    /\ [][/\ v_autoReconnect' # v_autoReconnect => last'.op = "VS_toggleAutoReconnect"
          /\ j_autoReconnect' # j_autoReconnect => last'.op = "JB_toggleAutoReconnect"]_vars
    /\ (v_autoReconnect /\ ~VS_isListening) ~> (VS_isListening \/ ~v_autoReconnect)

\* C9 (disable is immediate and total): while sync is disabled in the JetBrains
\* plugin, none of its WebSocketClient objects is open or about to open, and the
\* service does not report Connected.
C9_DisabledDialerHasNoTransport ==
    ~j_autoReconnect =>
        /\ ~j_isConnected
        /\ \A c \in ConnIds : conns[c].cs \notin {"opening", "open"}

\* ------------------------------------------------------------ port change
\* Both peers Connected on the default port; the user changes the port setting of
\* either side and does nothing else.
PortCtl == 2

InitPort ==
    /\ ConnectedOn(DefaultPort)
    /\ userLeft = 0
    /\ ctlLeft = PortCtl
    /\ v_isActive = FALSE
    /\ j_isActive = FALSE
    /\ v_currentState = Null
    /\ j_caretListeners = {}
    /\ last = Last("init", Null, <<>>)
    /\ VS_editorIs([open |-> {"a"}, selected |-> "a", caret |-> Origin])
    /\ JB_editorIs([open |-> {"a"}, selected |-> "a", caret |-> Origin])

NextPort ==
    \/ VS_port \/ VS_socket
    \/ JB_port \/ JB_transport
    \/ Tick

SpecPort == InitPort /\ [][NextPort]_vars

\* C10 (rebind on config change): the listener's server is one for the configured
\* port: a change of the port setting rebinds it.
C10_ListenerBoundOnConfiguredPort == v_wss # Null => v_wss.port = v_port

\* --------------------------------------------------------- incoming filter
\* The peers are Connected and one frame is on the wire to one of them: any record
\* of the wire format, whatever sent it.  The receiver's editor and focus are
\* arbitrary.  No user event follows.
FixedEditor == [open |-> {"a"}, selected |-> "a", caret |-> Origin]

InitIn ==
    /\ \E m \in Messages :
         \/ /\ ConnectedWith(DefaultPort, <<m>>, <<>>)
            /\ \E e \in EditorStates : VS_editorIs(e)
            /\ JB_editorIs(FixedEditor)
            /\ j_caretListeners = {}
         \/ /\ ConnectedWith(DefaultPort, <<>>, <<m>>)
            /\ \E e \in EditorStates :
                 /\ JB_editorIs(e)
                 /\ j_caretListeners \in {{}, {e.selected} \cap e.open}
            /\ VS_editorIs(FixedEditor)
    /\ userLeft = 0
    /\ ctlLeft = 0
    /\ v_isActive \in BOOLEAN
    /\ j_isActive \in BOOLEAN
    /\ v_currentState = Null
    /\ last = Last("init", Null, <<>>)

NextIn == VS_incoming \/ VS_applyFails \/ JB_incoming

SpecIn == InitIn /\ [][NextIn]_vars

\* What a peer has put on the wire.
VS_sent == [c \in ConnIds |-> conns[c].toJ]
JB_sent == [c \in ConnIds |-> conns[c].toV]

\* The step just taken was the receipt of a frame by the listener / by the dialer.
VS_received(l) == l.op = "VS_onMessage"
JB_received(l) == l.op = "JB_onMessage"

\* C1 (self-echo suppression): a peer that receives a frame whose source is its own
\* role discards it: its editor, its echo-guard flag, its last-known state and its
\* queue of applies are left as they were, and it sends nothing.
C1_SelfEchoDiscarded ==
    [][/\ (VS_received(last') /\ last'.msg.source = "vscode") =>
             /\ UNCHANGED <<vsEditorVars, v_currentState, v_isHandlingExternalUpdate,
                            v_pending, v_isActive>>
             /\ VS_sent' = VS_sent
       /\ (JB_received(last') /\ last'.msg.source = "jetbrains") =>
             /\ UNCHANGED <<jbEditorVars, j_isHandlingExternalUpdate, j_edt, j_isActive>>
             /\ JB_sent' = JB_sent]_vars

\* The listener has just received a close from itself for a tab it has.
C1_OwnCloseReceived ==
    /\ VS_received(last)
    /\ last.msg.source = "vscode"
    /\ last.msg.action = "close"
    /\ last.msg.filePath \in v_tabs

\* C2 (select requires remote activation): a select from the other peer is applied
\* if its isActive is true (the apply is started on receipt, and when it is over the
\* file is the selected one with the caret at the position of the message), and
\* otherwise is discarded, leaving editor, flag, applies and outgoing traffic alone.
C2_SelectAppliedIffRemoteActive ==
    [][/\ (VS_received(last') /\ last'.msg.source # "vscode" /\ last'.msg.action = "select") =>
             IF last'.msg.isActive
             THEN v_pending' = Append(v_pending, [msg |-> last'.msg, pc |-> "select"])
             ELSE /\ UNCHANGED <<vsEditorVars, v_isHandlingExternalUpdate, v_pending>>
                  /\ VS_sent' = VS_sent
       /\ (JB_received(last') /\ last'.msg.source # "jetbrains" /\ last'.msg.action = "select") =>
             IF last'.msg.isActive
             THEN j_edt' = Append(j_edt, last'.msg)
             ELSE /\ UNCHANGED <<jbEditorVars, j_isHandlingExternalUpdate, j_edt>>
                  /\ JB_sent' = JB_sent
       /\ (last'.op = "VS_showResolved" /\ last'.msg.action = "select") =>
             /\ last'.msg.filePath \in v_tabs'
             /\ v_activeEditor' = last'.msg.filePath
             /\ v_selection' = Position(last'.msg)
       /\ (last'.op = "JB_apply" /\ last'.msg.action = "select") =>
             /\ last'.msg.filePath \in j_openFiles'
             /\ j_selectedFile' = last'.msg.filePath
             /\ j_caret' = Position(last'.msg)]_vars

\* The listener has applied a select of the active dialer.
C2_SelectShown ==
    /\ last.op = "VS_showResolved"
    /\ last.msg.action = "select"
    /\ last.msg.isActive
    /\ v_activeEditor = last.msg.filePath
    /\ v_selection = Position(last.msg)

\* C3 (close is unconditional on receipt): a close from the other peer is handled
\* whatever its isActive and whatever the receiver's focus: the close of the named
\* file is started on receipt if the receiver has the file, and when it is over the
\* file is not open any more.
C3_CloseAlwaysAttempted ==
    [][/\ (VS_received(last') /\ last'.msg.source # "vscode" /\ last'.msg.action = "close") =>
             IF last'.msg.filePath \in v_tabs
             THEN v_pending' = Append(v_pending, [msg |-> last'.msg, pc |-> "close"])
             ELSE UNCHANGED <<vsEditorVars, v_pending>>
       /\ (JB_received(last') /\ last'.msg.source # "jetbrains" /\ last'.msg.action = "close") =>
             j_edt' = Append(j_edt, last'.msg)
       /\ last'.op = "VS_closeResolved" => last'.msg.filePath \notin v_tabs'
       /\ (last'.op = "JB_apply" /\ last'.msg.action = "close") =>
             last'.msg.filePath \notin j_openFiles']_vars

\* The unfocused listener has closed a tab for a close of the inactive dialer.
C3_InactiveCloseApplied ==
    /\ last.op = "VS_closeResolved"
    /\ ~last.msg.isActive
    /\ ~v_isActive
    /\ last.msg.filePath \notin v_tabs

\* ------------------------------------------------------- synchronisation
\* The peers are Connected, nothing is on the wire, the editors and the focus are
\* arbitrary; the user does one thing in one of the editors or windows, and the
\* peers exchange what follows from it.
InitSync ==
    /\ ConnectedOn(DefaultPort)
    /\ \E e \in EditorStates : VS_editorIs(e)
    /\ \E e \in EditorStates :
         /\ JB_editorIs(e)
         /\ j_caretListeners \in {{}, {e.selected} \cap e.open}
    /\ userLeft = 1
    /\ ctlLeft = 0
    /\ v_isActive \in BOOLEAN
    /\ j_isActive \in BOOLEAN
    /\ v_currentState = Null
    /\ last = Last("init", Null, <<>>)

NextSync ==
    \/ VS_editor \/ VS_focus \/ VS_incoming \/ VS_applyFails
    \/ JB_editor \/ JB_focus \/ JB_incoming

SpecSync == InitSync /\ [][NextSync]_vars

\* ------------------------------------------------------- outgoing filter
\* The peers are Connected with the same two files open.  The user of the focused
\* VSCode window has just moved the caret and the select for it is on the wire to
\* the unfocused JetBrains window; the user then does one more thing in either
\* editor or window, at any moment of the exchange.
TwoTabs == [open |-> {"a", "b"}, selected |-> "a", caret |-> Origin]
Moved == SelectMsg("a", <<0, 1>>, "vscode", TRUE)

InitGate ==
    /\ ConnectedWith(DefaultPort, <<>>, <<Moved>>)
    /\ VS_editorIs([TwoTabs EXCEPT !.caret = Position(Moved)])
    /\ v_isActive = TRUE
    /\ v_currentState = Moved
    /\ JB_editorIs(TwoTabs)
    /\ j_caretListeners = {"a"}
    /\ j_isActive = FALSE
    /\ userLeft = 1
    /\ ctlLeft = 0
    /\ last = Step("VS_userSelect", Null, <<Moved>>, <<Moved>>)

\* Either of the two: a user event on quiescent peers, or a user event while the
\* dialer is receiving.
SpecGate == (InitSync \/ InitGate) /\ [][NextSync]_vars

Range(seq) == {seq[i] : i \in 1 .. Len(seq)}

\* The step just taken was a local event of the listener / of the dialer: the user
\* in the editor or the window, or the editor disposing a document.
VS_localOps == {"VS_userSelect", "VS_userOpen", "VS_userCloseTab", "VS_docClosed", "VS_windowState"}
JB_localOps == {"JB_userCaret", "JB_userOpen", "JB_userClose", "JB_windowFocus"}

\* Every candidate passed to updateState was sent if and only if it is a close or
\* the peer is active.
Gated(l, active) ==
    \A m \in Range(l.offered) : m \in Range(l.sent) <=> (m.action = "close" \/ active)

VS_applyOps == {"VS_closeResolved", "VS_showResolved"}
JB_applyOps == {"JB_apply"}

\* C5 (reentrancy): in either peer the application of an incoming select or close
\* sends nothing, whatever observation callbacks it fires.
C5_ApplySendsNothing ==
    last.op \in VS_applyOps \cup JB_applyOps => last.sent = <<>>

\* ------------------------------------------------------- termination
\* The peers are Connected and show the same thing, the focus is arbitrary; the user
\* does one thing, and every callback, delivery and await that can run eventually
\* runs.
InitEcho ==
    /\ ConnectedOn(DefaultPort)
    /\ \E e \in EditorStates :
         /\ VS_editorIs(e)
         /\ JB_editorIs(e)
         /\ j_caretListeners = {e.selected} \cap e.open
    /\ userLeft = 1
    /\ ctlLeft = 0
    /\ v_isActive \in BOOLEAN
    /\ j_isActive \in BOOLEAN
    /\ v_currentState = Null
    /\ last = Last("init", Null, <<>>)

SpecEcho ==
    /\ InitEcho
    /\ [][NextSync]_vars
    /\ WF_vars(VS_incoming \/ VS_applyFails \/ JB_incoming)
    /\ WF_vars(VS_disposes)

\* Nothing is in flight and nothing is left to run: no frame, no handler, no await,
\* no queued apply, no document waiting to be disposed.
Quiescent == ~Pending /\ v_closedDocs = {}

InitLead ==
    /\ ConnectedOn(DefaultPort)
    /\ \E e \in EditorStates : VS_editorIs(e)
    /\ \E e \in EditorStates :
         /\ JB_editorIs(e)
         /\ j_caretListeners = {e.selected} \cap e.open
    /\ userLeft = 1
    /\ ctlLeft = 0
    /\ v_isActive \in BOOLEAN
    /\ j_isActive = ~v_isActive
    /\ v_currentState = Null
    /\ last = Last("init", Null, <<>>)

VS_leads ==
    \/ \E position \in Positions : Timed(v_isActive /\ VS_userSelect(position))
    \/ \E f \in Files : Timed(v_isActive /\ VS_userOpen(f))

JB_leads ==
    \/ \E position \in Positions : Timed(j_isActive /\ JB_userCaret(position))
    \/ \E f \in Files : Timed(j_isActive /\ JB_userOpen(f))

VS_follows ==
    \/ \E c \in ConnIds : Timed(VS_onMessage(c))
    \/ \E i \in 1 .. MaxTasks : Timed(VS_showResolved(i))

NextLead == VS_leads \/ JB_leads \/ VS_follows \/ JB_incoming

SpecLead == InitLead /\ [][NextLead]_vars /\ WF_vars(VS_follows \/ JB_incoming)

\* Both editors show the same file with the caret at the same position.
Agree ==
    /\ v_activeEditor # NoFile
    /\ v_activeEditor \in v_tabs \cap j_openFiles
    /\ v_activeEditor = j_selectedFile
    /\ v_selection = j_caret

\* C7 (convergence to the active side): after the select event of the active peer
\* the exchange never changes the file or the caret of the active peer, and
\* eventually, for good, the peers are quiescent and the other peer shows that file
\* with its caret at that position.
C7_FollowerConverges ==
    /\ [][userLeft = 0 =>
            /\ v_isActive => UNCHANGED <<v_activeEditor, v_selection>>
            /\ j_isActive => UNCHANGED <<j_selectedFile, j_caret>>]_vars
    /\ <>[](userLeft = 0 => Quiescent /\ Agree)

\* The unfocused dialer has applied the select the focused listener sent for the
\* user's event, and now shows what the listener shows.
C7_DialerFollowed ==
    /\ userLeft = 0
    /\ v_isActive
    /\ last.op = "JB_apply"
    /\ last.msg = v_currentState
    /\ last.msg.action = "select"
    /\ j_selectedFile = last.msg.filePath
    /\ j_caret = Position(last.msg)
    /\ Quiescent
    /\ Agree

\* ------------------------------------------------------- guard release
\* C11 (guaranteed release of the echo guard): whenever isHandlingExternalUpdate is
\* set in a peer it is false again later, on every path of the handling, the ones
\* where the close or the show throws included.
C11_GuardReleased ==
    /\ v_isHandlingExternalUpdate ~> ~v_isHandlingExternalUpdate
    /\ j_isHandlingExternalUpdate ~> ~j_isHandlingExternalUpdate

\* showTextDocument threw for the only handler in progress, and the flag is clear.
C11_ReleasedAfterFailure ==
    /\ last.op = "VS_showRejected"
    /\ v_pending = <<>>
    /\ ~v_isHandlingExternalUpdate

\* ------------------------------------------------------- one transport
\* C12 (exactly one live transport per peer): the listener has at most one accepted
\* socket that is open and the dialer at most one WebSocketClient that is open.
C12_OneOpenEndpoint ==
    /\ Cardinality({c \in ConnIds : ServerIsOpen(conns[c])}) <= 1
    /\ Cardinality({c \in ConnIds : ClientIsOpen(conns[c])}) <= 1

\* ------------------------------------------------------- single retry
\* The reconnection attempts of the dialer that are pending or in progress: pooled
\* tasks sleeping their five seconds or due to call connectWebSocket, pooled tasks
\* about to call connectBlocking, and clients whose connectBlocking is running.
JB_attempts ==
    j_sleeping + j_due + j_connectTasks
      + Cardinality({c \in ConnIds : conns[c].cs = "connecting"})

\* C13 (single pending retry): the dialer never has two reconnection attempts
\* pending or in progress at the same time.
C13_SingleAttempt == JB_attempts <= 1

\* ------------------------------------------------------- state on connect
\* Both services are constructed with sync off.  The user toggles sync on either
\* side and the JetBrains window gains or loses the focus once; the unfocused
\* listener handles what it receives.
OpenCtl == 4

InitOpen ==
    /\ Constructed
    /\ userLeft = 1
    /\ ctlLeft = OpenCtl
    /\ v_isActive = FALSE
    /\ VS_editorIs([open |-> {"a"}, selected |-> "a", caret |-> Origin])
    /\ \E e \in {[open |-> {"a"}, selected |-> "a", caret |-> Origin],
                 [open |-> {}, selected |-> NoFile, caret |-> Origin]} : JB_editorIs(e)

NextOpen ==
    \/ VS_toggle \/ VS_transport \/ VS_follows
    \/ JB_toggle \/ JB_transport \/ JB_focus
    \/ Tick

SpecOpen == InitOpen /\ [][NextOpen]_vars

\* C14 (state on connect), as stated: every onOpen of the dialer sends the selected
\* file and its caret, whatever isActive is.
C14_StateSentOnEveryOpen ==
    [][(last'.op = "JB_onOpen" /\ j_selectedFile # NoFile) =>
          last'.sent = <<SelectMsg(j_selectedFile, j_caret, "jetbrains", j_isActive)>>]_vars

\* C14, amended: onOpen sends the selected file and its caret exactly when the
\* dialer is active, is not handling an external update, and the webSocket field
\* holds an open client; otherwise it sends nothing.
C14_StateSentOnOpenIfActive ==
    [][last'.op = "JB_onOpen" =>
          last'.sent =
            IF /\ j_selectedFile # NoFile
               /\ j_isActive
               /\ ~j_isHandlingExternalUpdate
               /\ j_webSocket' # 0
               /\ ClientIsOpen(conns'[j_webSocket'])
            THEN <<SelectMsg(j_selectedFile, j_caret, "jetbrains", TRUE)>>
            ELSE <<>>]_vars

\* The focused dialer has connected and has sent its file and caret.
C14_FocusedDialerSent ==
    /\ last.op = "JB_onOpen"
    /\ j_isActive
    /\ j_isConnected
    /\ last.sent = <<SelectMsg(j_selectedFile, j_caret, "jetbrains", TRUE)>>

\* ------------------------------------------------------- bind retry
\* C15 (listener bind failure is retried): when a backoff interval has passed, an
\* enabled listener is not left with a server whose bind failed: a new bind has
\* been started.
C15_FailedBindRetried ==
    (last.op = "Tick" /\ v_autoReconnect /\ v_wss # Null) => v_wss.st # "failed"

\* ------------------------------------------------------- focus change
\* The peers are Connected and quiescent.  The listener's last candidate is none,
\* the select of what its editor shows, or the close of a file (which may have been
\* opened again since); the editors and the focus are arbitrary.  One window gains or loses the focus.
InitFocus ==
    /\ ConnectedOn(DefaultPort)
    /\ v_isActive \in BOOLEAN
    /\ j_isActive \in BOOLEAN
    /\ \E e \in EditorStates :
         /\ VS_editorIs(e)
         /\ v_currentState \in
              {Null}
                \cup {SelectMsg(e.selected, e.caret, "vscode", v_isActive) : x \in {e.selected} \ {NoFile}}
                \cup {CloseMsg(f, "vscode", v_isActive) : f \in Files}
    /\ \E e \in EditorStates :
         /\ JB_editorIs(e)
         /\ j_caretListeners = {e.selected} \cap e.open
    /\ userLeft = 1
    /\ ctlLeft = 0
    /\ last = Last("init", Null, <<>>)

NextFocus ==
    \/ VS_focus \/ VS_incoming \/ VS_applyFails \/ VS_disposes
    \/ JB_focus \/ JB_incoming

SpecFocus == InitFocus /\ [][NextFocus]_vars

\* What the focus handler of the listener / of the dialer re-sends: the last
\* candidate, respectively the selected file and caret, with the new isActive.
VS_rebroadcast == [v_currentState EXCEPT !.isActive = v_isActive', !.source = "vscode"]
JB_rebroadcast == SelectMsg(j_selectedFile, j_caret, "jetbrains", j_isActive')

VS_focusChanged ==
    last'.op = "VS_windowState" /\ v_isActive' # v_isActive /\ v_currentState # Null
JB_focusChanged ==
    last'.op = "JB_windowFocus" /\ j_isActive' # j_isActive /\ j_selectedFile # NoFile

\* C16 (focus-change re-broadcast), as stated: on an open connection (it stays open
\* in these behaviours) a focus change in either direction re-sends the last state
\* with the updated isActive.
C16_ResentOnEveryFocusChange ==
    [][/\ VS_focusChanged => last'.sent = <<VS_rebroadcast>>
       /\ JB_focusChanged => last'.sent = <<JB_rebroadcast>>]_vars

\* C16, amended: the state is re-sent when the window gains the focus (in the
\* dialer: unless it is handling an external update); when the window loses the
\* focus nothing is sent, except by the listener whose last candidate is a close.
C16_ResentOnFocusGain ==
    [][/\ VS_focusChanged =>
            last'.sent = IF v_isActive' \/ v_currentState.action = "close"
                         THEN <<VS_rebroadcast>> ELSE <<>>
       /\ JB_focusChanged =>
            last'.sent = IF j_isActive' /\ ~j_isHandlingExternalUpdate
                         THEN <<JB_rebroadcast>> ELSE <<>>]_vars

\* The listener's window has gained the focus and its last select went out again,
\* now marked active.
C16_ListenerResent ==
    /\ last.op = "VS_windowState"
    /\ v_isActive
    /\ v_currentState # Null
    /\ v_currentState.action = "select"
    /\ last.sent = <<v_currentState>>
    /\ last.offered = last.sent

\* ------------------------------------------------------- admission
\* Both peers Connected on the default port, no window focused.  Another program
\* connects to the listener with some request path and sends a frame; the plugin
\* redials when it loses its connection.
AdmitClients == 2

InitAdmit ==
    /\ ConnectedOn(DefaultPort)
    /\ userLeft = AdmitClients
    /\ ctlLeft = 0
    /\ v_isActive = FALSE
    /\ j_isActive = FALSE
    /\ v_currentState = Null
    /\ j_caretListeners = {}
    /\ last = Last("init", Null, <<>>)
    /\ VS_editorIs([open |-> {"a"}, selected |-> "a", caret |-> Origin])
    /\ JB_editorIs([open |-> {"a"}, selected |-> "a", caret |-> Origin])

Client_steps ==
    \/ \E url \in Urls : Timed(Client_connect(DefaultPort, url))
    \/ \E c \in ConnIds :
          Timed(Client_send(c, SelectMsg("a", <<0, 1>>, "jetbrains", TRUE)))
    \/ \E c \in ConnIds : Timed(Client_gone(c))
    \/ \E c \in ConnIds : Timed(VS_noHandler(c))

\* The plugin's dialing while the listener stays up.
JB_redials ==
    \/ Timed(JB_connectTask)
    \/ \E c \in ConnIds : Timed(JB_onOpen(c))
    \/ \E c \in ConnIds : Timed(JB_connectReturn(c))
    \/ Timed(JB_retry)
    \/ \E c \in ConnIds : Timed(JB_netClosed(c))
    \/ \E c \in ConnIds : Timed(JB_onClose(c))

NextAdmit ==
    \/ VS_socket \/ VS_follows
    \/ JB_redials
    \/ Client_steps
    \/ Tick

SpecAdmit == InitAdmit /\ [][NextAdmit]_vars

\* C17 (role-token admission): when the 'connection' handler has run for a client,
\* the client is the active one if its path is /jetbrains; otherwise its socket is
\* being closed, the active client is the same and as open as before, and the
\* connected status and icon are unchanged.  A frame that starts an application
\* in VSCode was taken from a socket whose path is /jetbrains.
C17_OnlyJetbrainsAdmitted ==
    [][\A c \in ConnIds :
          /\ (conns[c].ss = "none" /\ conns'[c].ss # "none") =>
                IF conns[c].url = "/jetbrains"
                THEN v_jetbrainsClient' = c /\ v_isConnected' /\ conns'[c].ss = "open"
                ELSE /\ conns'[c].ss = "closing"
                     /\ UNCHANGED <<v_jetbrainsClient, v_isConnected, v_statusIcon>>
                     /\ v_jetbrainsClient # 0 =>
                           conns'[v_jetbrainsClient].ss = conns[v_jetbrainsClient].ss
          /\ (Len(v_pending') > Len(v_pending) /\ conns[c].toV # <<>>
                 /\ conns'[c].toV = Tail(conns[c].toV)) => conns[c].url = "/jetbrains"]_vars

\* A client with another path was turned away while the plugin is connected: its
\* socket is closing and its frame was dropped, the plugin is still the client.
C17_StrangerTurnedAway ==
    /\ last.op = "VS_noHandler"
    /\ v_isConnected
    /\ v_jetbrainsClient # 0
    /\ conns[v_jetbrainsClient].url = "/jetbrains"
    /\ ServerIsOpen(conns[v_jetbrainsClient])
    /\ \E c \in ConnIds : conns[c].url # "/jetbrains" /\ conns[c].cs = "x_open"

\* ---------------------------------------------------------------- decoding
\* The peers are Connected and two frames are on the wire to one of them, whatever
\* sent them: first a frame that is not JSON or a JSON object without some of the
\* members, then a whole record.  No user event follows.
LackSets == {{member} : member \in Members} \cup {{"source", "isActive"}}
DecodeMessages ==
    [filePath : Files, line : {1}, column : {1}, source : {"vscode", "jetbrains"},
     isActive : BOOLEAN, action : {"select", "close"}]
DefectiveFrames == {Garbage} \cup {Lacking(F, m) : F \in LackSets, m \in DecodeMessages}

InitDecode ==
    /\ \E frame \in DefectiveFrames, m \in DecodeMessages :
         \/ ConnectedWith(DefaultPort, <<frame, m>>, <<>>)
         \/ ConnectedWith(DefaultPort, <<>>, <<frame, m>>)
    /\ VS_editorIs(FixedEditor)
    /\ JB_editorIs(FixedEditor)
    /\ j_caretListeners = {}
    /\ userLeft = 0
    /\ ctlLeft = 0
    /\ v_isActive = FALSE
    /\ j_isActive = FALSE
    /\ v_currentState = Null
    /\ last = Last("init", Null, <<>>)

NextDecode == VS_incoming \/ VS_applyFails \/ JB_incoming

SpecDecode == InitDecode /\ [][NextDecode]_vars

\* The socket a frame was taken from, at both ends, and what is still queued on it.
Endpoints == [c \in ConnIds |-> <<conns[c].cs, conns[c].ss>>]

\* C18 (decode failures are non-fatal): a peer that receives a frame it cannot
\* decode drops it: its editor, its echo-guard flag and its queue of applies are as
\* before, it sends nothing, the connection is as open as before and the peer is
\* still Connected; the whole record that follows on the same connection is handled
\* as any other: a close of an open file, or a select from the active peer, starts
\* an application.
C18_UndecodableDropped ==
    [][/\ (VS_received(last') /\ IsGarbage(last'.msg)) =>
             /\ UNCHANGED <<vsEditorVars, vsSyncVars, vsConnVars>>
             /\ Endpoints' = Endpoints
             /\ VS_sent' = VS_sent
             /\ v_isConnected
       /\ (JB_received(last') /\ IsGarbage(last'.msg)) =>
             /\ UNCHANGED <<jbEditorVars, jbSyncVars, jbConnVars>>
             /\ Endpoints' = Endpoints
             /\ JB_sent' = JB_sent
             /\ j_isConnected
       /\ (VS_received(last') /\ last'.msg \in DecodeMessages /\ IsGarbage(last.msg)
              /\ last'.msg.source # "vscode") =>
             IF \/ last'.msg.action = "close" /\ last'.msg.filePath \in v_tabs
                \/ last'.msg.action = "select" /\ last'.msg.isActive
             THEN v_pending' = Append(v_pending, [msg |-> last'.msg, pc |-> last'.msg.action])
             ELSE v_pending' = v_pending
       /\ (JB_received(last') /\ last'.msg \in DecodeMessages /\ IsGarbage(last.msg)
              /\ last'.msg.source # "jetbrains") =>
             IF last'.msg.action = "close" \/ last'.msg.isActive
             THEN j_edt' = Append(j_edt, last'.msg)
             ELSE j_edt' = j_edt]_vars

\* After a frame that could not be decoded, the next frame on the same connection
\* was applied: the file it names is shown with the caret where it says.
C18_NextFrameApplied ==
    /\ last.op = "VS_showResolved"
    /\ v_isConnected
    /\ v_activeEditor = "b"
    /\ v_selection = <<1, 1>>
    /\ \A c \in ConnIds : conns[c].toV = <<>> /\ conns[c].toJ = <<>>

\* Every whole record of SpecDecode names a file, line 1, column 1 and an action: a
\* decoded state that differs in one of these is that of a frame without the member.
CoreWhole(state) ==
    /\ state.filePath \in Files
    /\ state.line = 1
    /\ state.column = 1
    /\ state.action \in {"select", "close"}

OnlyExtrasLacking(frame) == Lacks(frame) # {} /\ Lacks(frame) \subseteq {"source", "isActive"}

\* C19 (decode validation): a frame without filePath, line, column or action is never
\* applied: no application of its state changes the receiver's editor.  A frame
\* that lacks only source and/or isActive is taken as one from another peer that
\* is not active: its select is dropped, its close starts an application.
C19_DefectiveFramesRejected ==
    [][/\ (last'.op \in {"VS_closeResolved", "VS_showResolved"} /\ ~CoreWhole(last'.msg)) =>
             UNCHANGED vsEditorVars
       /\ (last'.op = "JB_apply" /\ ~CoreWhole(last'.msg)) =>
             UNCHANGED jbEditorVars
       /\ (VS_received(last') /\ OnlyExtrasLacking(last'.msg)) =>
             LET m == last'.msg.of
                 other == "source" \in Lacks(last'.msg) \/ m.source # "vscode"
                 active == "isActive" \notin Lacks(last'.msg) /\ m.isActive
             IN Len(v_pending') > Len(v_pending) <=>
                  /\ other
                  /\ \/ m.action = "close" /\ m.filePath \in v_tabs
                     \/ m.action = "select" /\ active
       /\ (JB_received(last') /\ OnlyExtrasLacking(last'.msg)) =>
             LET m == last'.msg.of
                 other == "source" \in Lacks(last'.msg) \/ m.source # "jetbrains"
                 active == "isActive" \notin Lacks(last'.msg) /\ m.isActive
             IN Len(j_edt') > Len(j_edt) <=> (other /\ (m.action = "close" \/ active))]_vars

\* ------------------------------------------------------------------ status
\* The transport a peer holds as its current one, as the peer's end sees it.
VS_transportOpen == v_jetbrainsClient # 0 /\ conns[v_jetbrainsClient].ss \in {"open", "closing"}
JB_transportOpen == j_webSocket # 0 /\ ClientIsOpen(conns[j_webSocket])

\* C21 (status matches the connection): the listener's icon is the check mark only
\* while it holds a client, the crossed-out one exactly while sync is disabled, and
\* the check mark whenever its client is open; the dialer does not report
\* connected while disabled or while reconnecting, and reports connected whenever
\* its current client is open.
C21_StatusMatchesTransport ==
    /\ v_statusIcon = "check" => VS_transportOpen
    /\ VS_clientOpen => v_statusIcon = "check"
    /\ v_statusIcon = "sync-ignored" <=> ~v_autoReconnect
    /\ ~(j_isConnected /\ ~j_autoReconnect)
    /\ ~(j_isConnected /\ j_isReconnecting)
    /\ JB_transportOpen => j_isConnected

\* ------------------------------------------------------------------ toggle
\* C22 (the toggle flips Disabled and Connecting): invoked while sync is disabled,
\* toggleAutoReconnect enables it and starts the bind of a new server on the
\* configured port (listener) or a new client for it with its connect task
\* (dialer); invoked while sync is enabled it disables it, drops the transport and
\* reports not connected.
C22_ToggleFlips ==
    [][/\ last'.op = "VS_toggleAutoReconnect" =>
             IF ~v_autoReconnect
             THEN /\ v_autoReconnect'
                  /\ v_wss' = [port |-> v_port, st |-> "binding"]
             ELSE /\ ~v_autoReconnect'
                  /\ v_wss' = Null
                  /\ v_jetbrainsClient' = 0
                  /\ ~v_isConnected'
       /\ last'.op = "JB_toggleAutoReconnect" =>
             IF ~j_autoReconnect
             THEN /\ j_autoReconnect'
                  /\ j_isReconnecting'
                  /\ j_webSocket' # 0
                  /\ j_webSocket' # j_webSocket
                  /\ conns'[j_webSocket'].cs = "new"
                  /\ conns'[j_webSocket'].port = j_port
                  /\ j_connectTasks' = j_connectTasks + 1
             ELSE /\ ~j_autoReconnect'
                  /\ j_webSocket' = 0
                  /\ ~j_isConnected'
                  /\ ~j_isReconnecting']_vars

\* The dialer was Connected, the user disabled it and enabled it again: a new client
\* is about to dial while the old one is closing.
C22_ToggledOffAndOn ==
    /\ last.op = "JB_toggleAutoReconnect"
    /\ j_autoReconnect
    /\ j_webSocket # 0
    /\ conns[j_webSocket].cs = "new"
    /\ \E c \in ConnIds : conns[c].cs = "closing"

\* ------------------------------------------------------- activation flag
\* The listener has accepted the dialer's client and onOpen has not run yet.
HandshakeOn(port) ==
    /\ conns = [id \in ConnIds |->
                  IF id = 1 THEN [NewConn(port) EXCEPT !.cs = "opening", !.ss = "open",
                                                       !.waiter = TRUE]
                  ELSE FreeConn]
    /\ v_wss = [port |-> port, st |-> "listening"]
    /\ v_jetbrainsClient = 1
    /\ v_isConnected = TRUE
    /\ v_autoReconnect = TRUE
    /\ v_isHandlingExternalUpdate = FALSE
    /\ v_statusIcon = updateStatusBarItem(TRUE, TRUE)
    /\ v_port = port
    /\ v_pending = <<>>
    /\ v_closedDocs = {}
    /\ j_webSocket = 1
    /\ j_isHandlingExternalUpdate = FALSE
    /\ j_isConnected = FALSE
    /\ j_isReconnecting = TRUE
    /\ j_autoReconnect = TRUE
    /\ j_port = port
    /\ j_edt = <<>>
    /\ j_connectTasks = 0
    /\ j_sleeping = 0
    /\ j_due = 0
    /\ waited = 0

\* The peers are Connected or about to be, with the same two files open; the focus
\* and the listener's last-known state are arbitrary; the user does two things in
\* the editors or windows.  What the other peer does with the frames is left out.
CarryEvents == 2

InitCarry ==
    /\ ConnectedOn(DefaultPort) \/ HandshakeOn(DefaultPort)
    /\ v_isActive \in BOOLEAN
    /\ j_isActive \in BOOLEAN
    /\ VS_editorIs(TwoTabs)
    /\ v_currentState \in
         {Null, SelectMsg(TwoTabs.selected, TwoTabs.caret, "vscode", v_isActive)}
           \cup {CloseMsg(f, "vscode", v_isActive) : f \in Files}
    /\ JB_editorIs(TwoTabs)
    /\ j_caretListeners = {TwoTabs.selected}
    /\ userLeft = CarryEvents
    /\ ctlLeft = 0
    /\ last = Last("init", Null, <<>>)

JB_opens ==
    \/ \E c \in ConnIds : Timed(JB_onOpen(c))
    \/ \E c \in ConnIds : Timed(JB_connectReturn(c))

NextCarry == VS_editor \/ VS_focus \/ JB_editor \/ JB_focus \/ JB_opens

SpecCarry == InitCarry /\ [][NextCarry]_vars

\* C23 (messages carry the activation flag): every frame a step puts on the wire
\* has in isActive the value the sender's isActive variable has when the step
\* sends it.
C23_CarriesActivation ==
    [][\A i \in DOMAIN last'.sent :
          last'.sent[i].isActive =
              IF last'.sent[i].source = "vscode" THEN v_isActive' ELSE j_isActive']_vars

\* The dialer's window had gained the focus before its onOpen ran: the on-connect
\* select says the sender is active.
C23_OnConnectSaysActive ==
    /\ last.op = "JB_onOpen"
    /\ Len(last.sent) = 1
    /\ last.sent[1].isActive
    /\ j_isActive
    /\ userLeft = 0

\* ------------------------------------------------------------- echo guard
\* C24 (the echo guard spans the whole apply): whenever a peer opens, shows or closes
\* a file or moves the caret for an incoming update, its isHandlingExternalUpdate
\* flag is set while it does so.
C24_GuardSpansApply ==
    [][/\ last'.op \in VS_applyOps => v_isHandlingExternalUpdate
       /\ last'.op \in JB_applyOps => j_isHandlingExternalUpdate]_vars

\* The peers are Connected with the same two files open, a select of the other file
\* that says its sender is active is on the wire to one of them; neither window
\* has the focus.  The user does one thing in an editor or window at any moment of
\* the exchange.
InitGuard ==
    /\ \/ ConnectedWith(DefaultPort, <<SelectMsg("b", Origin, "jetbrains", TRUE)>>, <<>>)
       \/ ConnectedWith(DefaultPort, <<>>, <<SelectMsg("b", Origin, "vscode", TRUE)>>)
    /\ v_isActive = FALSE
    /\ j_isActive = FALSE
    /\ VS_editorIs(TwoTabs)
    /\ v_currentState \in {Null, SelectMsg(TwoTabs.selected, TwoTabs.caret, "vscode", FALSE)}
    /\ JB_editorIs(TwoTabs)
    /\ j_caretListeners = {TwoTabs.selected}
    /\ userLeft = 1
    /\ ctlLeft = 0
    /\ last = Last("init", Null, <<>>)

SpecGuard == InitGuard /\ [][NextSync]_vars

\* C25 (the echo guard covers every local event): a selection change, an
\* active-editor change, a tab or document close or a window focus change that a
\* peer observes while its isHandlingExternalUpdate flag is set puts nothing on
\* the wire.
C25_GuardCoversLocalEvents ==
    [][/\ (last'.op \in VS_localOps /\ v_isHandlingExternalUpdate) => last'.sent = <<>>
       /\ (last'.op \in JB_localOps /\ j_isHandlingExternalUpdate) => last'.sent = <<>>]_vars

\* --------------------------------------------------------- received close
\* The steps that handle or apply a received message.
HandlingOps ==
    {"VS_onMessage", "VS_closeResolved", "VS_closeRejected", "VS_showResolved",
     "VS_showRejected", "JB_onMessage", "JB_apply"}

\* C26 (a received close never acts as a select): no step that handles or applies a
\* message whose action is close opens a file, and none shows the message's file
\* with the caret at its line and column.
C26_CloseNeverSelects ==
    [][(last'.op \in HandlingOps /\ last'.msg.action = "close") =>
          /\ last'.op # "VS_showResolved"
          /\ v_tabs' \subseteq v_tabs
          /\ j_openFiles' \subseteq j_openFiles]_vars

\* ------------------------------------------------------- unexpected close
\* The close callback of the current transport of a peer runs in this step.
VS_currentCloses ==
    /\ last'.op = "VS_onClose"
    /\ v_jetbrainsClient # 0
    /\ conns[v_jetbrainsClient].ss # "closed"
    /\ conns'[v_jetbrainsClient].ss # conns[v_jetbrainsClient].ss
JB_currentCloses ==
    /\ last'.op = "JB_onClose"
    /\ j_webSocket # 0
    /\ conns[j_webSocket].cs = "closing"
    /\ conns'[j_webSocket].cs # "closing"

\* The listener accepts a jetbrains client while its current one is open.
VS_replaces ==
    /\ last'.op = "VS_onConnection"
    /\ VS_clientOpen
    /\ v_jetbrainsClient' # v_jetbrainsClient

\* What a peer does when its current transport closes and when a backoff is over.
LeavesConnected ==
    /\ (VS_currentCloses /\ v_autoReconnect) =>
          /\ ~v_isConnected'
          /\ v_jetbrainsClient' = 0
          /\ v_statusIcon' = "sync~spin"
    /\ (JB_currentCloses /\ j_autoReconnect) =>
          /\ ~j_isConnected'
          /\ j_isReconnecting'
          /\ JB_attempts' >= 1
          /\ JB_attempts' <= JB_attempts + 1
    /\ last'.op = "JB_retry" =>
          /\ j_due' = j_due - 1
          /\ (j_webSocket' # j_webSocket) = j_autoReconnect
          /\ j_connectTasks' = j_connectTasks + (IF j_autoReconnect THEN 1 ELSE 0)

LocalEvents == 2

InitLocal ==
    /\ \/ Constructed
       \/ /\ ConnectedOn(DefaultPort)
          /\ v_currentState = Null
          /\ j_isActive = FALSE
          /\ j_caretListeners = {}
          /\ last = Last("init", Null, <<>>)
    /\ v_isActive \in BOOLEAN
    /\ \E e \in EditorStates : VS_editorIs(e)
    /\ JB_editorIs(TwoTabs)
    /\ userLeft = LocalEvents
    /\ ctlLeft = 0

NextLocal == VS_editor \/ VS_focus

SpecLocal == InitLocal /\ [][NextLocal]_vars

\* C28 as stated (the last-known state is the last message sent): currentState
\* changes only to a message the listener transmits in the same step.
C28_LastKnownIsLastSent ==
    [][v_currentState' # v_currentState =>
          /\ last'.sent # <<>>
          /\ v_currentState' = last'.sent[Len(last'.sent)]]_vars

\* C28 (the last-known state), amended: after every local event currentState is
\* the last candidate the event passed to updateState, sent or not, and it is
\* left alone when the event passed none.
C28_LastKnownIsLastCandidate ==
    [][last'.op \in VS_localOps =>
          v_currentState' = IF last'.offered = <<>> THEN v_currentState
                            ELSE last'.offered[Len(last'.offered)]]_vars

\* The unfocused, Connected listener holds a select it has not sent.
C28_FilteredCandidateKept ==
    /\ last.op = "VS_userSelect"
    /\ VS_clientOpen
    /\ ~v_isActive
    /\ last.sent = <<>>
    /\ v_currentState # Null
    /\ v_currentState = last.offered[Len(last.offered)]

\* ------------------------------------------------------- origin of a close
\* The local events in which a tab, a document or a file is closed.
CloseOps == {"VS_userCloseTab", "VS_docClosed", "JB_userClose"}

\* C29 (close messages come only from close events): a frame with action close is
\* put on the wire only by a step in which a tab, document or file is closed
\* locally; a focus change and onOpen put none.
C29_CloseOnlyFromCloseEvent ==
    [][\A i \in DOMAIN last'.sent :
          last'.sent[i].action = "close" => last'.op \in CloseOps]_vars

\* ------------------------------------------------------- superseded transport
\* The peer has a current transport and the close callback of another one, which
\* it has replaced, runs in this step.
VS_supersededCloses ==
    last'.op = "VS_onClose" /\ v_jetbrainsClient # 0 /\ ~VS_currentCloses
JB_supersededCloses ==
    last'.op = "JB_onClose" /\ j_webSocket # 0 /\ ~JB_currentCloses

\* C30 (callbacks of a superseded transport are inert): the close callback of a
\* socket or client that the peer has replaced changes neither the connected
\* status nor the reference to the current transport, and schedules no retry.
C30_SupersededInert ==
    [][/\ VS_supersededCloses =>
             UNCHANGED <<v_isConnected, v_jetbrainsClient, v_statusIcon>>
       /\ JB_supersededCloses =>
             /\ UNCHANGED <<j_isConnected, j_webSocket, j_isReconnecting>>
             /\ JB_attempts' <= JB_attempts]_vars

\* ------------------------------------------------------- stable connection
\* Both peers are enabled and Connected over one transport, open at both ends,
\* which is the current one of both.
Paired ==
    /\ v_autoReconnect /\ j_autoReconnect
    /\ v_isConnected /\ j_isConnected
    /\ j_webSocket # 0
    /\ j_webSocket = v_jetbrainsClient
    /\ ClientIsOpen(conns[j_webSocket])
    /\ ServerIsOpen(conns[j_webSocket])

\* C31 (connection stability): while the peers are Connected and stay enabled, no
\* step makes the dialer create another client and none makes the listener take
\* another client; the pair stays Connected over the same transport.
C31_StaysPaired ==
    [][(Paired /\ last'.op \notin {"VS_toggleAutoReconnect", "JB_toggleAutoReconnect"}) =>
          /\ j_webSocket' = j_webSocket
          /\ v_jetbrainsClient' = v_jetbrainsClient
          /\ Paired']_vars

\* ------------------------------------------------------- disabled peers
\* Both services as constructed, sync off.  The user toggles sync or changes the
\* port setting on either side InertCtl times and does InertEvents things in the
\* editors and windows, in any order; the connection managers run.
InertCtl == 3
InertEvents == 1

InitInert ==
    /\ Constructed
    /\ userLeft = InertEvents
    /\ ctlLeft = InertCtl
    /\ v_isActive = FALSE
    /\ VS_editorIs(TwoTabs)
    /\ JB_editorIs(TwoTabs)

NextInert ==
    \/ VS_toggle \/ VS_port \/ VS_transport \/ VS_editor \/ VS_focus
    \/ JB_toggle \/ JB_port \/ JB_transport \/ JB_editor \/ JB_focus
    \/ Tick

SpecInert == InitInert /\ [][NextInert]_vars

\* The clients of the dialer that are about to dial or dialing.
JB_dialing == {c \in ConnIds : conns[c].cs \in {"new", "connecting"}}

\* The operations of the user other than the toggles: in the editor, on the
\* window, on the port setting.
VS_userOps == VS_localOps \cup {"VS_configPort"}
JB_userOps == JB_localOps \cup {"JB_configPort"}

====
